----------------------------- MODULE TestRunProofs -----------------------------
(***************************************************************************)
(* Proofs about the cases of runs, their results, and how they are seen.   *)
(***************************************************************************)
EXTENDS TestRun, SublistProofs

(***************************************************************************)
(* Orders                                                                  *)
(***************************************************************************)

\* Positions before others by the key of their rows are in a strict order.
LEMMA RowTypes ==
  ASSUME NEW rows \in Seq(NetRows)
  PROVE  /\ DOMAIN rows \in SUBSET (Nat \ {0})
         /\ \A i \in DOMAIN rows : /\ rows[i] \in NetRows /\ rows[i].subnet \in Nat \ {0}
                                   /\ rows[i].cluster \in Nat \ {0} /\ rows[i].vrf \in Nat \ {0}
<1>1. DOMAIN rows = 1..Len(rows) /\ Len(rows) \in Nat
  OBVIOUS
<1>2. \A i \in DOMAIN rows : rows[i] \in NetRows
  BY <1>1
<1>3. \A r \in NetRows : r.subnet \in Nat \ {0} /\ r.cluster \in Nat \ {0} /\ r.vrf \in Nat \ {0}
  BY DEF NetRows
<1> QED
  BY <1>1, <1>2, <1>3

LEMMA BeforeOrders ==
  ASSUME NEW a \in NetRows, NEW b \in NetRows, NEW c \in NetRows
  PROVE  /\ Before(a, b) => ~Before(b, a)
         /\ Before(a, b) /\ ~Before(c, b) => Before(a, c)
         /\ ~Before(b, a) /\ Before(b, c) => Before(a, c)
         /\ ~Before(b, a) /\ ~Before(c, b) => ~Before(c, a)
<1>1. \A r \in NetRows : r.subnet \in Int /\ r.cluster \in Int /\ r.vrf \in Int
  BY DEF NetRows
<1> QED
  BY <1>1 DEF Before

LEMMA EarlierOrders ==
  ASSUME NEW rows \in Seq(NetRows)
  PROVE  StrictlyOrders(Earlier(rows), DOMAIN rows)
<1> DEFINE D == DOMAIN rows
           le(i, j) == Before(rows[i], rows[j]) \/ (~Before(rows[j], rows[i]) /\ i < j)
<1>1. \A i \in D : rows[i].subnet \in Int /\ rows[i].cluster \in Int /\ rows[i].vrf \in Int /\ i \in Int
  BY RowTypes
<1>2. \A i, j \in D : <<i, j>> \in Earlier(rows) <=> le(i, j)
  BY DEF Earlier
<1> HIDE DEF D
<1>3. \A i \in D : ~le(i, i)
  <2> SUFFICES ASSUME NEW i \in D, ~Before(rows[i], rows[i]), i < i PROVE FALSE
    BY <1>1 DEF Before
  <2> QED
    BY <1>1
<1>4. \A i, j \in D : i # j => le(i, j) \/ le(j, i)
  BY <1>1
<1>5. \A i, j, k \in D : le(i, j) /\ le(j, k) => le(i, k)
  <2> SUFFICES ASSUME NEW i \in D, NEW j \in D, NEW k \in D, le(i, j), le(j, k) PROVE le(i, k)
    OBVIOUS
  <2>1. rows[i] \in NetRows /\ rows[j] \in NetRows /\ rows[k] \in NetRows
    BY RowTypes DEF D
  <2>2. \/ Before(rows[i], rows[j])
        \/ ~Before(rows[j], rows[i]) /\ i < j
    OBVIOUS
  <2>3. \/ Before(rows[j], rows[k])
        \/ ~Before(rows[k], rows[j]) /\ j < k
    OBVIOUS
  <2>4. ~Before(rows[j], rows[i]) /\ ~Before(rows[k], rows[j])
    BY <2>1, <2>2, <2>3, BeforeOrders
  <2>5. CASE Before(rows[i], rows[j]) \/ Before(rows[j], rows[k])
    BY <2>1, <2>4, <2>5, BeforeOrders
  <2>6. CASE i < j /\ j < k
    <3>1. ~Before(rows[k], rows[i])
      BY <2>1, <2>4, BeforeOrders
    <3>2. i < k
      BY <1>1, <2>6
    <3> QED
      BY <3>1, <3>2
  <2> QED
    BY <2>2, <2>3, <2>5, <2>6
<1> HIDE DEF le, D
<1> QED
  BY <1>2, <1>3, <1>4, <1>5 DEF StrictlyOrders, D

LEMMA PairsOrdered ==
  ASSUME NEW S \in SUBSET (Nat \X Nat)
  PROVE  /\ StrictlyOrders(Lexicographic(S), S)
         /\ \A p, q \in S : <<p, q>> \in Lexicographic(S) <=> p[1] < q[1] \/ (p[1] = q[1] /\ p[2] < q[2])
<1>1. \A p, q \in S : <<p, q>> \in Lexicographic(S) <=> p[1] < q[1] \/ (p[1] = q[1] /\ p[2] < q[2])
  <2> SUFFICES ASSUME NEW p \in S, NEW q \in S
               PROVE  <<p, q>> \in Lexicographic(S) <=> p[1] < q[1] \/ (p[1] = q[1] /\ p[2] < q[2])
    OBVIOUS
  <2>1. DOMAIN p = 1..2
    OBVIOUS
  <2>2. <<p, q>> \in Lexicographic(S) <=> \E n \in 1..2 : p[n] < q[n] /\ \A m \in 1..(n - 1) : p[m] = q[m]
    BY <2>1 DEF Lexicographic
  <2>3. \A n \in 1..2 : (n = 1 /\ 1..(n - 1) = {}) \/ (n = 2 /\ 1..(n - 1) = {1})
    OBVIOUS
  <2>4. 1 \in 1..2 /\ 2 \in 1..2
    OBVIOUS
  <2> QED
    BY <2>2, <2>3, <2>4
<1>2. \A p \in S : p[1] \in Nat /\ p[2] \in Nat /\ p = <<p[1], p[2]>>
  OBVIOUS
<1> QED
  BY <1>1, <1>2 DEF StrictlyOrders

LEMMA TriplesOrdered ==
  ASSUME NEW S \in SUBSET (Nat \X Nat \X Nat)
  PROVE  /\ StrictlyOrders(Lexicographic(S), S)
         /\ \A p, q \in S : <<p, q>> \in Lexicographic(S) <=>
              \/ p[1] < q[1] \/ (p[1] = q[1] /\ p[2] < q[2])
              \/ p[1] = q[1] /\ p[2] = q[2] /\ p[3] < q[3]
<1>1. \A p, q \in S : <<p, q>> \in Lexicographic(S) <=>
              \/ p[1] < q[1] \/ (p[1] = q[1] /\ p[2] < q[2])
              \/ p[1] = q[1] /\ p[2] = q[2] /\ p[3] < q[3]
  <2> SUFFICES ASSUME NEW p \in S, NEW q \in S
               PROVE  <<p, q>> \in Lexicographic(S) <=>
                        \/ p[1] < q[1] \/ (p[1] = q[1] /\ p[2] < q[2])
                        \/ p[1] = q[1] /\ p[2] = q[2] /\ p[3] < q[3]
    OBVIOUS
  <2>1. DOMAIN p = 1..3
    OBVIOUS
  <2>2. <<p, q>> \in Lexicographic(S) <=> \E n \in 1..3 : p[n] < q[n] /\ \A m \in 1..(n - 1) : p[m] = q[m]
    BY <2>1 DEF Lexicographic
  <2>3. \A n \in 1..3 : \/ n = 1 /\ 1..(n - 1) = {}
                        \/ n = 2 /\ 1..(n - 1) = {1}
                        \/ n = 3 /\ 1..(n - 1) = {1, 2}
    OBVIOUS
  <2>4. 1 \in 1..3 /\ 2 \in 1..3 /\ 3 \in 1..3
    OBVIOUS
  <2> QED
    BY <2>2, <2>3, <2>4
<1>2. \A p \in S : p[1] \in Nat /\ p[2] \in Nat /\ p[3] \in Nat /\ p = <<p[1], p[2], p[3]>>
  OBVIOUS
<1> QED
  BY <1>1, <1>2 DEF StrictlyOrders

LEMMA DomainFinite ==
  ASSUME NEW T, NEW seq \in Seq(T)
  PROVE  IsFiniteSet(DOMAIN seq)
<1>1. Len(seq) \in Nat /\ DOMAIN seq = 1..Len(seq)
  OBVIOUS
<1> QED
  BY <1>1, FS_Interval

(***************************************************************************)
(* The cases of pairs of rows                                              *)
(***************************************************************************)

LEMMA PolicySortFacts ==
  ASSUME NEW rows \in Seq(NetRows)
  PROVE  /\ PolicySort(rows) \in Seq(NetRows)
         /\ \A j, k \in DOMAIN PolicySort(rows) :
              j < k => PolicySort(rows)[j].subnet <= PolicySort(rows)[k].subnet
         /\ \A i \in DOMAIN rows : \E k \in DOMAIN PolicySort(rows) : PolicySort(rows)[k] = rows[i]
         /\ \A k \in DOMAIN PolicySort(rows) : \E i \in DOMAIN rows : PolicySort(rows)[k] = rows[i]
<1>1. PICK order : order = Earlier(rows)
  OBVIOUS
<1>2. PICK P : P = Sorted(rows, order)
  OBVIOUS
<1>3. StrictlyOrders(order, DOMAIN rows)
  BY <1>1, EarlierOrders
<1>4. P \in Seq(NetRows) /\ Len(P) = Len(rows)
  BY <1>2, <1>3, SortedFacts
<1>5. PICK A : A = Arranged(DOMAIN rows, order)
  OBVIOUS
<1>6. /\ \A k \in DOMAIN rows : A[k] \in DOMAIN rows /\ P[k] = rows[A[k]]
      /\ \A j, k \in DOMAIN rows : j < k => <<A[j], A[k]>> \in order
      /\ \A i \in DOMAIN rows : \E k \in DOMAIN rows : P[k] = rows[i]
  <2>1. \A k \in DOMAIN rows : A[k] \in DOMAIN rows /\ P[k] = rows[A[k]]
    <3> SUFFICES ASSUME NEW k \in DOMAIN rows PROVE A[k] \in DOMAIN rows /\ P[k] = rows[A[k]]
      OBVIOUS
    <3>1. A[k] \in DOMAIN rows
      BY <1>2, <1>3, <1>5, SortedFacts
    <3>2. P[k] = rows[A[k]]
      BY <1>2, <1>5 DEF Sorted
    <3> QED
      BY <3>1, <3>2
  <2>2. \A j, k \in DOMAIN rows : j < k => <<A[j], A[k]>> \in order
    BY <1>2, <1>3, <1>5, SortedFacts
  <2>3. \A i \in DOMAIN rows : \E k \in DOMAIN rows : P[k] = rows[i]
    BY <1>2, <1>3, SortedFacts
  <2> QED
    BY <2>1, <2>2, <2>3
<1>7. DOMAIN P = DOMAIN rows
  <2>1. DOMAIN P = 1..Len(P) /\ DOMAIN rows = 1..Len(rows)
    BY <1>4
  <2> QED
    BY <1>4, <2>1
<1>8. \A j, k \in DOMAIN P : j < k => P[j].subnet <= P[k].subnet
  <2> SUFFICES ASSUME NEW j \in DOMAIN rows, NEW k \in DOMAIN rows, j < k
               PROVE  P[j].subnet <= P[k].subnet
    BY <1>7
  <2>1. PICK p \in DOMAIN rows, q \in DOMAIN rows : <<p, q>> \in order /\ P[j] = rows[p] /\ P[k] = rows[q]
    <3>1. A[j] \in DOMAIN rows /\ P[j] = rows[A[j]] /\ A[k] \in DOMAIN rows /\ P[k] = rows[A[k]]
      BY <1>6
    <3>2. <<A[j], A[k]>> \in order
      BY <1>6
    <3> QED
      BY <3>1, <3>2
  <2>2. rows[p].subnet \in Int /\ rows[q].subnet \in Int
    BY RowTypes
  <2>3. Before(rows[p], rows[q]) \/ ~Before(rows[q], rows[p])
    BY <1>1, <2>1 DEF Earlier
  <2>4. rows[p].subnet <= rows[q].subnet
    BY <2>2, <2>3 DEF Before
  <2> QED
    BY <2>1, <2>4
<1>9. P = PolicySort(rows)
  BY <1>1, <1>2 DEF PolicySort
<1>10. /\ \A i \in DOMAIN rows : \E k \in DOMAIN P : P[k] = rows[i]
       /\ \A k \in DOMAIN P : \E i \in DOMAIN rows : P[k] = rows[i]
  BY <1>6, <1>7
<1> QED
  BY <1>4, <1>8, <1>9, <1>10

\* What the pairs of a sorted list are: positions of different subnets, the first before the
\* second.
LEMMA CombinationsFacts ==
  ASSUME NEW rows \in Seq(NetRows)
  PROVE  /\ Len(Combinations(rows)) \in Nat /\ DOMAIN Combinations(rows) = 1..Len(Combinations(rows))
         /\ \A k \in DOMAIN Combinations(rows) :
              /\ Combinations(rows)[k][1] \in DOMAIN rows /\ Combinations(rows)[k][2] \in DOMAIN rows
              /\ Combinations(rows)[k][1] < Combinations(rows)[k][2]
              /\ rows[Combinations(rows)[k][1]].subnet # rows[Combinations(rows)[k][2]].subnet
<1>1. PICK D : D = DOMAIN rows
  OBVIOUS
<1>2. PICK pairs : pairs = {p \in D \X D : p[1] < p[2] /\ rows[p[1]].subnet # rows[p[2]].subnet}
  OBVIOUS
<1>3. IsFiniteSet(pairs)
  <2>1. IsFiniteSet(D)
    BY <1>1, DomainFinite
  <2>2. IsFiniteSet(D \X D)
    BY <2>1, FS_Product
  <2>3. pairs \in SUBSET (D \X D)
    BY <1>2
  <2> QED
    BY <2>2, <2>3, FS_Subset
<1>4. pairs \in SUBSET (Nat \X Nat)
  BY <1>1, <1>2, RowTypes
<1>5. \A p \in pairs : /\ p[1] \in D /\ p[2] \in D /\ p[1] < p[2]
                       /\ rows[p[1]].subnet # rows[p[2]].subnet
  BY <1>2
<1>6. PICK order : order = Lexicographic(pairs)
  OBVIOUS
<1>7. StrictlyOrders(order, pairs)
  BY <1>4, <1>6, PairsOrdered
<1>8. PICK C : C = Arranged(pairs, order)
  OBVIOUS
<1>9. C \in Seq(pairs)
  BY <1>3, <1>7, <1>8, ArrangedFacts
<1>10. Combinations(rows) = C
  BY <1>1, <1>2, <1>6, <1>8 DEF Combinations
<1>11. Len(C) \in Nat /\ DOMAIN C = 1..Len(C) /\ \A k \in DOMAIN C : C[k] \in pairs
  BY <1>9
<1> QED
  BY <1>1, <1>5, <1>10, <1>11

\* Two rows of different subnets, the first with the smaller one.
Ordered(src, dst) ==
  /\ src \in (Nat \ {0}) \X (Nat \ {0}) /\ dst \in (Nat \ {0}) \X (Nat \ {0})
  /\ src[1] < dst[1]

LEMMA EndpointsOrdered ==
  ASSUME NEW rows \in Seq(NetRows), NEW sorted, sorted = PolicySort(rows),
         NEW pairs, pairs = Combinations(sorted), NEW k \in DOMAIN pairs
  PROVE  /\ pairs[k][1] \in DOMAIN sorted /\ pairs[k][2] \in DOMAIN sorted
         /\ Ordered(Endpoint(sorted[pairs[k][1]]), Endpoint(sorted[pairs[k][2]]))
<1>1. /\ sorted \in Seq(NetRows)
      /\ \A m, n \in DOMAIN sorted : m < n => sorted[m].subnet <= sorted[n].subnet
  BY PolicySortFacts
<1>2. PICK m \in DOMAIN sorted, n \in DOMAIN sorted :
        m = pairs[k][1] /\ n = pairs[k][2] /\ m < n /\ sorted[m].subnet # sorted[n].subnet
  BY <1>1, CombinationsFacts
<1>3. PICK a \in NetRows, b \in NetRows : a = sorted[m] /\ b = sorted[n]
  BY <1>1, RowTypes
<1>4. /\ a.subnet \in Nat \ {0} /\ a.cluster \in Nat \ {0}
      /\ b.subnet \in Nat \ {0} /\ b.cluster \in Nat \ {0}
  BY DEF NetRows
<1>5. a.subnet < b.subnet
  BY <1>1, <1>2, <1>3, <1>4
<1>6. Ordered(Endpoint(a), Endpoint(b))
  BY <1>4, <1>5 DEF Ordered, Endpoint
<1> QED
  BY <1>2, <1>3, <1>6

LEMMA PhaseTypes ==
  /\ \A kind \in {"intra-subnet", "custom"} \cup Pairwise : Named(kind) \in Phases
  /\ \A row \in Nat, step \in Nat : CustomPhase(row, step) \in Phases
BY DEF Named, CustomPhase, Phases

LEMMA CaseType ==
  ASSUME NEW src \in Nat \X Nat, NEW dst \in Nat \X Nat, NEW phase \in Phases, NEW probe \in {"icmp", "tcp"},
         NEW expected \in {"OBSERVE", "PASS", "FAIL"},
         NEW reason \in {"same-vrf", "cross-vrf", "custom-step1", "custom-step2", "intra-subnet-direct",
                         "cross-vrf-allowlist", "cross-vrf-block"}
  PROVE  Case(src, dst, phase, probe, expected, reason) \in CaseSet
BY DEF Case, CaseSet

\* The cases of a run that is not phased but for its custom rules.
LEMMA GeneratedFacts ==
  ASSUME NEW rows \in Seq(NetRows)
  PROVE  /\ GenerateTestCases(rows) \in Seq(CaseSet)
         /\ \A k \in DOMAIN GenerateTestCases(rows) :
              /\ Ordered(GenerateTestCases(rows)[k].src, GenerateTestCases(rows)[k].dst)
              /\ GenerateTestCases(rows)[k].phase = Named("network")
              /\ GenerateTestCases(rows)[k].probe = "icmp"
<1>1. PICK sorted : sorted = PolicySort(rows)
  OBVIOUS
<1>2. PICK pairs : pairs = Combinations(sorted)
  OBVIOUS
<1>3. Len(pairs) \in Nat /\ DOMAIN pairs = 1..Len(pairs)
  <2>1. sorted \in Seq(NetRows)
    BY <1>1, PolicySortFacts
  <2> QED
    BY <1>2, <2>1, CombinationsFacts
<1> DEFINE case(k) == Case(Endpoint(sorted[pairs[k][1]]), Endpoint(sorted[pairs[k][2]]), Named("network"),
                           "icmp", "OBSERVE",
                           IF sorted[pairs[k][1]].vrf = sorted[pairs[k][2]].vrf THEN "same-vrf" ELSE "cross-vrf")
<1>4. GenerateTestCases(rows) = [k \in DOMAIN pairs |-> case(k)]
  BY <1>1, <1>2 DEF GenerateTestCases
<1>5. ASSUME NEW k \in DOMAIN pairs
      PROVE  /\ case(k) \in CaseSet /\ Ordered(case(k).src, case(k).dst)
             /\ case(k).phase = Named("network") /\ case(k).probe = "icmp"
  <2>1. PICK src, dst : src = Endpoint(sorted[pairs[k][1]]) /\ dst = Endpoint(sorted[pairs[k][2]])
    OBVIOUS
  <2>2. Ordered(src, dst)
    BY <1>1, <1>2, <2>1, EndpointsOrdered
  <2>3. src \in Nat \X Nat /\ dst \in Nat \X Nat
    BY <2>2 DEF Ordered
  <2>4. Named("network") \in Phases
    BY PhaseTypes DEF Pairwise
  <2>5. PICK reason \in {"same-vrf", "cross-vrf"} :
          case(k) = Case(src, dst, Named("network"), "icmp", "OBSERVE", reason)
    BY <2>1
  <2> HIDE DEF case
  <2>6. case(k) \in CaseSet
    BY <2>3, <2>4, <2>5, CaseType
  <2> QED
    BY <2>2, <2>5, <2>6 DEF Case
<1> HIDE DEF case
<1>6. GenerateTestCases(rows) \in Seq(CaseSet) /\ DOMAIN GenerateTestCases(rows) = DOMAIN pairs
  <2>1. GenerateTestCases(rows) \in [1..Len(pairs) -> CaseSet]
    BY <1>3, <1>4, <1>5
  <2> QED
    BY <1>3, <2>1
<1>7. \A k \in DOMAIN pairs : GenerateTestCases(rows)[k] = case(k)
  BY <1>4
<1> QED
  BY <1>5, <1>6, <1>7

\* What is expected of a pair, and why, by the phase.
LEMMA PairCasesFacts ==
  ASSUME NEW rows \in Seq(NetRows), NEW passSet
  PROVE  /\ PairCases(rows, passSet) \in Seq(CaseSet)
         /\ DOMAIN PairCases(rows, passSet) = DOMAIN GenerateTestCases(rows)
         /\ \A k \in DOMAIN PairCases(rows, passSet) :
              /\ PairCases(rows, passSet)[k].src = GenerateTestCases(rows)[k].src
              /\ PairCases(rows, passSet)[k].dst = GenerateTestCases(rows)[k].dst
              /\ PairCases(rows, passSet)[k].phase.kind \in Pairwise \ {"network"}
              /\ PairCases(rows, passSet)[k].phase = Named(PairCases(rows, passSet)[k].phase.kind)
              /\ PairCases(rows, passSet)[k].probe = "icmp"
<1>1. PICK sorted : sorted = PolicySort(rows)
  OBVIOUS
<1>2. PICK pairs : pairs = Combinations(sorted)
  OBVIOUS
<1>3. Len(pairs) \in Nat /\ DOMAIN pairs = 1..Len(pairs)
  <2>1. sorted \in Seq(NetRows)
    BY <1>1, PolicySortFacts
  <2> QED
    BY <1>2, <2>1, CombinationsFacts
<1> DEFINE kind(k) == PhaseOfPair(sorted[pairs[k][1]], sorted[pairs[k][2]], passSet)
           case(k) == Case(Endpoint(sorted[pairs[k][1]]), Endpoint(sorted[pairs[k][2]]), Named(kind(k)), "icmp",
                           IF kind(k) = "cross-vrf-block" THEN "FAIL" ELSE "PASS",
                           IF kind(k) = "intra-vrf" THEN "same-vrf" ELSE kind(k))
<1>4. PairCases(rows, passSet) = [k \in DOMAIN pairs |-> case(k)]
  BY <1>1, <1>2 DEF PairCases
<1>5. /\ DOMAIN GenerateTestCases(rows) = DOMAIN pairs
      /\ \A k \in DOMAIN pairs : /\ GenerateTestCases(rows)[k].src = Endpoint(sorted[pairs[k][1]])
                                 /\ GenerateTestCases(rows)[k].dst = Endpoint(sorted[pairs[k][2]])
  BY <1>1, <1>2 DEF GenerateTestCases, Case
<1>6. ASSUME NEW k \in DOMAIN pairs
      PROVE  /\ case(k) \in CaseSet
             /\ case(k).src = Endpoint(sorted[pairs[k][1]]) /\ case(k).dst = Endpoint(sorted[pairs[k][2]])
             /\ case(k).phase.kind \in Pairwise \ {"network"} /\ case(k).phase = Named(case(k).phase.kind)
             /\ case(k).probe = "icmp"
  <2>1. PICK src, dst : src = Endpoint(sorted[pairs[k][1]]) /\ dst = Endpoint(sorted[pairs[k][2]])
    OBVIOUS
  <2>2. Ordered(src, dst)
    BY <1>1, <1>2, <2>1, EndpointsOrdered
  <2>3. src \in Nat \X Nat /\ dst \in Nat \X Nat
    BY <2>2 DEF Ordered
  <2>4. PICK n \in {"intra-vrf", "cross-vrf-allowlist", "cross-vrf-block"} : n = kind(k)
    BY DEF PhaseOfPair
  <2>5. n \in Pairwise \ {"network"} /\ Named(n) \in Phases
    BY <2>4, PhaseTypes DEF Pairwise
  <2>6. case(k) = Case(src, dst, Named(n), "icmp", IF n = "cross-vrf-block" THEN "FAIL" ELSE "PASS",
                       IF n = "intra-vrf" THEN "same-vrf" ELSE n)
    BY <2>1, <2>4
  <2>7. PICK expected \in {"PASS", "FAIL"}, reason \in {"same-vrf", "cross-vrf-allowlist", "cross-vrf-block"} :
          case(k) = Case(src, dst, Named(n), "icmp", expected, reason)
    BY <2>4, <2>6
  <2> HIDE DEF case
  <2>8. case(k) \in CaseSet
    BY <2>3, <2>5, <2>7, CaseType
  <2>9. Named(n).kind = n
    BY DEF Named
  <2> QED
    BY <2>1, <2>5, <2>7, <2>8, <2>9 DEF Case
<1> HIDE DEF case, kind
<1>7. PairCases(rows, passSet) \in Seq(CaseSet) /\ DOMAIN PairCases(rows, passSet) = DOMAIN pairs
  <2>1. PairCases(rows, passSet) \in [1..Len(pairs) -> CaseSet]
    BY <1>3, <1>4, <1>6
  <2> QED
    BY <1>3, <2>1
<1>8. \A k \in DOMAIN pairs : PairCases(rows, passSet)[k] = case(k)
  BY <1>4
<1> QED
  BY <1>5, <1>6, <1>7, <1>8

(***************************************************************************)
(* The cases of a run                                                      *)
(***************************************************************************)

\* The probe of a case is told by its phase.
ProbeOf(c, phase) ==
  IF phase.kind = "custom" /\ phase.step = 2 /\ c.rules[phase.row + 1].protocol = "tcp" THEN "tcp" ELSE "icmp"

\* A case of a run: between paired rows in the phases of pairs.
CaseOK(c, x) ==
  /\ x \in CaseSet
  /\ x.probe = ProbeOf(c, x.phase)
  /\ x.phase.kind \in Pairwise => \E k \in DOMAIN GenerateTestCases(c.rows) :
       x.src = GenerateTestCases(c.rows)[k].src /\ x.dst = GenerateTestCases(c.rows)[k].dst

LEMMA CustomCasesFacts ==
  ASSUME NEW c, ConfigOK(c)
  PROVE  /\ BuildCustomCases(c.rules) \in Seq(CaseSet)
         /\ \A k \in DOMAIN BuildCustomCases(c.rules) : CaseOK(c, BuildCustomCases(c.rules)[k])
<1> DEFINE rules == c.rules
           filled == {r \in DOMAIN rules : /\ rules[r].src # 0 /\ rules[r].dst # 0
                                           /\ rules[r].protocol \in {"tcp", "udp", "icmp"}}
           valid == InOrder(filled)
<1>1. /\ Len(rules) \in Nat /\ DOMAIN rules = 1..Len(rules)
      /\ \A r \in DOMAIN rules : rules[r].src \in Nat /\ rules[r].dst \in Nat
  <2>1. PICK R, seq : /\ R = [src : Nat, dst : Nat, protocol : {"tcp", "udp", "icmp", "other"}]
                       /\ seq = c.rules
    OBVIOUS
  <2>2. seq \in Seq(R)
    BY <2>1 DEF ConfigOK
  <2>3. Len(seq) \in Nat /\ DOMAIN seq = 1..Len(seq) /\ \A r \in DOMAIN seq : seq[r] \in R
    BY <2>2
  <2>4. \A x \in R : x.src \in Nat /\ x.dst \in Nat
    BY <2>1
  <2> QED
    BY <2>1, <2>3, <2>4
<1>2. filled \in SUBSET Int /\ IsFiniteSet(filled)
  <2>1. IsFiniteSet(1..Len(rules))
    <3>1. \A n \in Nat : IsFiniteSet(1..n)
      BY FS_Interval
    <3> QED
      BY <1>1, <3>1
  <2>2. filled \in SUBSET (1..Len(rules))
    BY <1>1
  <2> QED
    BY <1>1, <2>1, <2>2, FS_Subset
<1>3. Cardinality(filled) \in Nat /\ DOMAIN valid = 1..Cardinality(filled)
      /\ \A k \in 1..Cardinality(filled) : valid[k] \in filled
  <2> HIDE DEF filled
  <2> QED
    BY <1>2, InOrderFacts
<1>4. \A k \in 1..Cardinality(filled) : valid[k] \in DOMAIN rules
  BY <1>3
<1> HIDE DEF filled, valid
<1>5. PICK n \in Nat : n = Cardinality(filled)
  BY <1>3
<1>6. Len(valid) = n
  BY <1>3, <1>5
<1> DEFINE row(k) == valid[(k + 1) \div 2]
           step(k) == IF k % 2 = 1 THEN 1 ELSE 2
           case(k) == Case(<<rules[row(k)].src, 0>>, <<rules[row(k)].dst, 0>>, CustomPhase(row(k) - 1, step(k)),
                           IF step(k) = 2 /\ rules[row(k)].protocol = "tcp" THEN "tcp" ELSE "icmp",
                           "PASS", IF step(k) = 1 THEN "custom-step1" ELSE "custom-step2")
<1>7. BuildCustomCases(rules) = [k \in 1..(2 * n) |-> case(k)]
  BY <1>6 DEF BuildCustomCases, valid, filled
<1>8. ASSUME NEW k \in 1..(2 * n) PROVE case(k) \in CaseSet /\ CaseOK(c, case(k))
  <2>1. (k + 1) \div 2 \in 1..n
    BY <1>5
  <2>2. PICK r \in DOMAIN rules : r = row(k)
    BY <1>3, <1>4, <1>5, <2>1
  <2>3. PICK s \in {1, 2} : s = step(k)
    OBVIOUS
  <2>4. PICK phase : phase = CustomPhase(r - 1, s)
    OBVIOUS
  <2>5. r - 1 \in Nat /\ s \in Nat /\ r = r - 1 + 1
    BY <1>1, <2>3
  <2>6. phase \in Phases
    BY <2>4, <2>5, PhaseTypes
  <2>7. phase.kind = "custom" /\ phase.row = r - 1 /\ phase.step = s
    BY <2>4 DEF CustomPhase
  <2>8. PICK probe \in {"icmp", "tcp"} : probe = IF s = 2 /\ rules[r].protocol = "tcp" THEN "tcp" ELSE "icmp"
    OBVIOUS
  <2>9. probe = ProbeOf(c, phase)
    BY <2>5, <2>7, <2>8 DEF ProbeOf
  <2>10. PICK reason \in {"custom-step1", "custom-step2"} : reason = IF s = 1 THEN "custom-step1" ELSE "custom-step2"
    OBVIOUS
  <2>11. PICK src, dst : src = <<rules[r].src, 0>> /\ dst = <<rules[r].dst, 0>>
    OBVIOUS
  <2>12. src \in Nat \X Nat /\ dst \in Nat \X Nat
    BY <1>1, <2>2, <2>11
  <2>13. case(k) = Case(src, dst, phase, probe, "PASS", reason)
    BY <2>2, <2>3, <2>4, <2>8, <2>10, <2>11
  <2> HIDE DEF case
  <2>14. case(k) \in CaseSet
    BY <2>6, <2>12, <2>13, CaseType
  <2>15. case(k).phase = phase /\ case(k).probe = probe
    BY <2>13 DEF Case
  <2>16. "custom" \notin Pairwise
    BY DEF Pairwise
  <2> QED
    BY <2>7, <2>9, <2>14, <2>15, <2>16 DEF CaseOK
<1> HIDE DEF case
<1>9. BuildCustomCases(rules) \in Seq(CaseSet) /\ DOMAIN BuildCustomCases(rules) = 1..(2 * n)
  <2>1. BuildCustomCases(rules) \in [1..(2 * n) -> CaseSet] /\ 2 * n \in Nat
    BY <1>5, <1>7, <1>8
  <2> QED
    BY <2>1
<1>10. \A k \in 1..(2 * n) : BuildCustomCases(rules)[k] = case(k)
  BY <1>7
<1> QED
  BY <1>8, <1>9, <1>10

\* What a suite selects differs in no more than what is expected.
LEMMA SelectedFacts ==
  ASSUME NEW c, ConfigOK(c), NEW cases \in Seq(CaseSet), \A k \in DOMAIN cases : CaseOK(c, cases[k])
  PROVE  /\ Selected(cases, c.suite) \in Seq(CaseSet)
         /\ \A k \in DOMAIN Selected(cases, c.suite) : CaseOK(c, Selected(cases, c.suite)[k])
<1>1. PICK suite : suite = c.suite /\ \A k \in DOMAIN suite : suite[k] \in {"PASS", "FAIL"}
  BY DEF ConfigOK
<1>2. CASE DOMAIN suite = {}
  BY <1>1, <1>2 DEF Selected
<1>3. CASE DOMAIN suite # {}
  <2> DEFINE expecting(k) == IF k \in DOMAIN suite THEN [cases[k] EXCEPT !.expected = suite[k]] ELSE cases[k]
             all == [k \in DOMAIN cases |-> expecting(k)]
             some == DOMAIN suite \cap DOMAIN cases
  <2>1. Selected(cases, suite) = Kept(all, some)
    BY <1>3 DEF Selected
  <2>2. ASSUME NEW k \in DOMAIN cases PROVE expecting(k) \in CaseSet /\ CaseOK(c, expecting(k))
    <3>1. cases[k] \in CaseSet /\ CaseOK(c, cases[k])
      OBVIOUS
    <3>2. CASE k \notin DOMAIN suite
      BY <3>1, <3>2
    <3>3. CASE k \in DOMAIN suite
      <4>1. PICK x \in CaseSet, e \in {"PASS", "FAIL"} : x = cases[k] /\ expecting(k) = [x EXCEPT !.expected = e]
        BY <1>1, <3>1, <3>3
      <4>2. [x EXCEPT !.expected = e] \in CaseSet
        BY DEF CaseSet
      <4>3. /\ [x EXCEPT !.expected = e].src = x.src /\ [x EXCEPT !.expected = e].dst = x.dst
            /\ [x EXCEPT !.expected = e].phase = x.phase /\ [x EXCEPT !.expected = e].probe = x.probe
        BY DEF CaseSet
      <4>4. PICK y : y = expecting(k)
        OBVIOUS
      <4>5. y \in CaseSet /\ y.src = x.src /\ y.dst = x.dst /\ y.phase = x.phase /\ y.probe = x.probe
        BY <4>1, <4>2, <4>3, <4>4
      <4>6. CaseOK(c, y)
        BY <3>1, <4>1, <4>5 DEF CaseOK
      <4> QED
        BY <4>4, <4>5, <4>6
    <3> QED
      BY <3>2, <3>3
  <2> HIDE DEF expecting
  <2>3. all \in Seq(CaseSet) /\ DOMAIN all = DOMAIN cases
    <3>1. Len(cases) \in Nat /\ DOMAIN cases = 1..Len(cases)
      OBVIOUS
    <3>2. all \in [1..Len(cases) -> CaseSet]
      BY <2>2, <3>1
    <3> QED
      BY <3>1, <3>2
  <2>4. \A k \in DOMAIN cases : all[k] = expecting(k)
    OBVIOUS
  <2> HIDE DEF all
  <2>5. some \in SUBSET DOMAIN all
    BY <2>3
  <2> HIDE DEF some
  <2>6. Kept(all, some) \in Seq(CaseSet)
    BY <2>3, <2>5, KeptFacts
  <2>7. ASSUME NEW k \in DOMAIN Kept(all, some) PROVE CaseOK(c, Kept(all, some)[k])
    <3>1. k \in 1..Cardinality(some)
      BY <2>3, <2>5, KeptFacts
    <3>2. PICK i \in some : Kept(all, some)[k] = all[i]
      BY <2>3, <2>5, <3>1, KeptFacts
    <3> QED
      BY <2>2, <2>3, <2>4, <2>5, <3>2
  <2> QED
    BY <1>1, <2>1, <2>6, <2>7
<1> QED
  BY <1>2, <1>3

LEMMA CasesOfFacts ==
  ASSUME NEW c, ConfigOK(c)
  PROVE  CasesOf(c) \in Seq(CaseSet) /\ \A k \in DOMAIN CasesOf(c) : CaseOK(c, CasesOf(c)[k])
<1>1. PICK G : G = GenerateTestCases(c.rows)
  OBVIOUS
<1>2. PICK B : B = BuildCustomCases(c.rules)
  OBVIOUS
<1>3. c.rows \in Seq(NetRows)
  BY DEF ConfigOK
<1>4. G \in Seq(CaseSet) /\ \A k \in DOMAIN G : G[k].phase = Named("network") /\ G[k].probe = "icmp"
  BY <1>1, <1>3, GeneratedFacts
<1>5. \A k \in DOMAIN G : CaseOK(c, G[k])
  <2>1. Named("network").kind = "network"
    BY DEF Named
  <2>2. \A k \in DOMAIN G : G[k] \in CaseSet
    BY <1>4
  <2> QED
    BY <1>1, <1>4, <2>1, <2>2 DEF CaseOK, ProbeOf
<1>6. B \in Seq(CaseSet) /\ \A k \in DOMAIN B : CaseOK(c, B[k])
  BY <1>2, CustomCasesFacts
<1>7. G \o B \in Seq(CaseSet) /\ \A k \in DOMAIN (G \o B) : CaseOK(c, (G \o B)[k])
  <2>1. /\ Len(G) \in Nat /\ Len(B) \in Nat /\ DOMAIN G = 1..Len(G) /\ DOMAIN B = 1..Len(B)
        /\ DOMAIN (G \o B) = 1..(Len(G) + Len(B))
        /\ \A k \in 1..(Len(G) + Len(B)) : (G \o B)[k] = IF k <= Len(G) THEN G[k] ELSE B[k - Len(G)]
    BY <1>4, <1>6
  <2>2. G \o B \in Seq(CaseSet)
    BY <1>4, <1>6
  <2>3. ASSUME NEW k \in 1..(Len(G) + Len(B)) PROVE CaseOK(c, (G \o B)[k])
    <3>1. CASE k <= Len(G)
      <4>1. k \in DOMAIN G
        BY <2>1, <3>1
      <4>2. (G \o B)[k] = G[k]
        BY <2>1, <3>1
      <4> QED
        BY <1>5, <4>1, <4>2
    <3>2. CASE ~(k <= Len(G))
      <4>1. k - Len(G) \in DOMAIN B
        BY <2>1, <3>2
      <4>2. (G \o B)[k] = B[k - Len(G)]
        BY <2>1, <3>2
      <4> QED
        BY <1>6, <4>1, <4>2
    <3> QED
      BY <3>1, <3>2
  <2> QED
    BY <2>1, <2>2, <2>3
<1>8. CasesOf(c) = Selected(G \o B, c.suite)
  BY <1>1, <1>2 DEF CasesOf
<1> QED
  BY <1>7, <1>8, SelectedFacts

(***************************************************************************)
(* Phases                                                                  *)
(***************************************************************************)

\* The subnets of a batch need no more VMs than allowed, unless one does.
LEMMA SizeFits ==
  ASSUME NEW vms \in Nat \ {0}, NEW maxVms \in Nat
  PROVE  MaxSubnets(vms, maxVms) \in Nat \ {0} /\ MaxSubnets(vms, maxVms) * vms <= Larger(vms, maxVms)
<1>1. PICK q \in Int : q = maxVms \div vms
  OBVIOUS
<1>2. q \in Nat /\ q * vms <= maxVms
  BY <1>1
<1>3. Larger(1, vms) = vms
  BY DEF Larger
<1>4. PICK s : s = Larger(1, q)
  OBVIOUS
<1>5. s \in Nat \ {0} /\ (s = 1 \/ s = q)
  BY <1>2, <1>4 DEF Larger
<1>6. s * vms <= Larger(vms, maxVms)
  <2>1. CASE s = 1
    BY <2>1 DEF Larger
  <2>2. CASE s = q
    BY <2>2, <1>2 DEF Larger
  <2> QED
    BY <1>5, <2>1, <2>2
<1>7. MaxSubnets(vms, maxVms) = s
  BY <1>1, <1>3, <1>4 DEF MaxSubnets
<1> QED
  BY <1>5, <1>6, <1>7

LEMMA BatchesApart ==
  ASSUME NEW a \in Nat, NEW b \in Nat, a < b, NEW size \in Nat
  PROVE  a * size <= (b - 1) * size
<1>1. PICK d \in Nat : d = b - 1 - a
  OBVIOUS
<1>2. b - 1 = a + d
  BY <1>1
<1>3. (a + d) * size = a * size + d * size
  OBVIOUS
<1>4. d * size \in Nat /\ a * size \in Nat
  OBVIOUS
<1> QED
  BY <1>2, <1>3, <1>4

\* A batch has no more subnets than its size, and none that is in another.
LEMMA BatchSubnetsFacts ==
  ASSUME NEW seen \in Seq(Nat), \A i, j \in DOMAIN seen : seen[i] = seen[j] => i = j,
         NEW size \in Nat \ {0}, NEW b \in Nat \ {0}
  PROVE  /\ IsFiniteSet(BatchSubnets(seen, size, b)) /\ Cardinality(BatchSubnets(seen, size, b)) \in Nat
         /\ Cardinality(BatchSubnets(seen, size, b)) <= size
         /\ \A a \in Nat \ {0} : a # b => BatchSubnets(seen, size, a) \cap BatchSubnets(seen, size, b) = {}
<1>1. Len(seen) \in Nat /\ DOMAIN seen = 1..Len(seen)
  OBVIOUS
<1>2. PICK low \in Nat : low = (b - 1) * size
  OBVIOUS
<1>3. b * size = low + size
  BY <1>2
<1> DEFINE I == {i \in DOMAIN seen : (b - 1) * size < i /\ i <= b * size}
           T == {seen[i] : i \in I}
           f == [i \in I |-> seen[i]]
<1>4. I \in SUBSET ((low + 1)..(low + size))
  BY <1>1, <1>2, <1>3
<1>5. IsFiniteSet((low + 1)..(low + size)) /\ Cardinality((low + 1)..(low + size)) = size
  <2>1. low + 1 \in Int /\ low + size \in Int /\ ~(low + 1 > low + size) /\ low + size - (low + 1) + 1 = size
    OBVIOUS
  <2> QED
    BY <2>1, FS_Interval
<1>6. IsFiniteSet(I) /\ Cardinality(I) <= size
  BY <1>4, <1>5, FS_Subset
<1> HIDE DEF I
<1>7. f \in Surjection(I, T)
  BY DEF Surjection
<1> HIDE DEF f
<1>8. IsFiniteSet(T) /\ Cardinality(T) <= Cardinality(I)
  BY <1>6, <1>7, FS_Surjection
<1>9. T = BatchSubnets(seen, size, b)
  BY DEF BatchSubnets, I
<1> HIDE DEF T
<1>10. Cardinality(T) \in Nat /\ Cardinality(I) \in Nat
  BY <1>6, <1>8, FS_CardinalityType
<1>11. ASSUME NEW a \in Nat \ {0}, a # b, NEW s, s \in BatchSubnets(seen, size, a), s \in BatchSubnets(seen, size, b)
       PROVE  FALSE
  <2>1. PICK i \in DOMAIN seen : seen[i] = s /\ (a - 1) * size < i /\ i <= a * size
    BY <1>11 DEF BatchSubnets
  <2>2. PICK j \in DOMAIN seen : seen[j] = s /\ (b - 1) * size < j /\ j <= b * size
    BY <1>11 DEF BatchSubnets
  <2>3. i = j
    BY <2>1, <2>2
  <2>4. PICK p \in Nat, q \in Nat, r \in Nat, s2 \in Nat :
          p = (a - 1) * size /\ q = a * size /\ r = (b - 1) * size /\ s2 = b * size
    OBVIOUS
  <2>7. p < i /\ i <= q /\ r < i /\ i <= s2 /\ i \in Nat
    BY <1>1, <2>1, <2>2, <2>3, <2>4
  <2>5. CASE a < b
    <3>1. q <= r
      BY <2>4, <2>5, BatchesApart
    <3> QED
      BY <2>7, <3>1
  <2>6. CASE b < a
    <3>1. s2 <= p
      BY <2>4, <2>6, BatchesApart
    <3> QED
      BY <2>7, <3>1
  <2> QED
    BY <1>11, <2>5, <2>6
<1> QED
  BY <1>6, <1>8, <1>9, <1>10, <1>11

LEMMA SubnetsOfFacts ==
  ASSUME NEW cases \in Seq(CaseSet)
  PROVE  /\ SubnetsOf(cases) \in Seq(Nat)
         /\ \A i, j \in DOMAIN SubnetsOf(cases) : SubnetsOf(cases)[i] = SubnetsOf(cases)[j] => i = j
<1>1. PICK n \in Nat : n = Len(cases) /\ DOMAIN cases = 1..n
  OBVIOUS
<1>2. \A i \in 1..n : cases[i].src[1] \in Nat /\ cases[i].dst[1] \in Nat
  <2>1. \A x \in CaseSet : x.src[1] \in Nat /\ x.dst[1] \in Nat
    BY DEF CaseSet
  <2>2. \A i \in 1..n : cases[i] \in CaseSet
    BY <1>1
  <2> QED
    BY <2>1, <2>2
<1> DEFINE subnet(k) == IF k % 2 = 1 THEN cases[(k + 1) \div 2].src[1] ELSE cases[k \div 2].dst[1]
<1>3. ASSUME NEW k \in 1..(2 * n) PROVE subnet(k) \in Nat
  <2>1. k % 2 = 1 => (k + 1) \div 2 \in 1..n
    BY <1>1
  <2>2. k % 2 # 1 => k \div 2 \in 1..n
    BY <1>1
  <2> QED
    BY <1>1, <1>2, <2>1, <2>2
<1>4. PICK list : list = [k \in 1..(2 * n) |-> subnet(k)]
  OBVIOUS
<1>5. SubnetsOf(cases) = Distinct(list)
  BY <1>1, <1>4 DEF SubnetsOf
<1> HIDE DEF subnet
<1>6. list \in Seq(Nat)
  <2>1. list \in [1..(2 * n) -> Nat] /\ 2 * n \in Nat
    BY <1>1, <1>3, <1>4
  <2> QED
    BY <2>1
<1>7. Distinct(list) \in Seq(Nat)
  BY <1>6, DistinctFacts
<1>8. \A i, j \in 1..Len(Distinct(list)) : Distinct(list)[i] = Distinct(list)[j] => i = j
  BY <1>6, DistinctFacts
<1>9. DOMAIN Distinct(list) = 1..Len(Distinct(list))
  BY <1>7
<1> QED
  BY <1>5, <1>7, <1>8, <1>9

\* Phases of which no case of one has the subnets and the phase of a case of the other.
Separate(P, Q) ==
  \A i \in DOMAIN P, j \in DOMAIN Q :
    ~(P[i].src[1] = Q[j].src[1] /\ P[i].dst[1] = Q[j].dst[1] /\ P[i].phase = Q[j].phase)

\* A part of the cases, between subnets for whose VMs there is room.
Batch(cases, vms, maxVms, P) ==
  /\ P \in Seq(CaseSet) /\ P # <<>>
  /\ \A i \in DOMAIN P : \E k \in DOMAIN cases : P[i] = cases[k]
  /\ Cardinality(PhaseSubnets(P)) \in Nat
  /\ Cardinality(PhaseSubnets(P)) * vms <= Larger(vms, maxVms)

LEMMA BatchPhaseFacts ==
  ASSUME NEW cases \in Seq(CaseSet), NEW vms \in Nat \ {0}, NEW maxVms \in Nat
  PROVE  /\ BatchPhase(cases, vms, maxVms) \in Seq(Seq(CaseSet))
         /\ \A n \in DOMAIN BatchPhase(cases, vms, maxVms) :
              Batch(cases, vms, maxVms, BatchPhase(cases, vms, maxVms)[n])
         /\ \A m, n \in DOMAIN BatchPhase(cases, vms, maxVms) :
              m # n => Separate(BatchPhase(cases, vms, maxVms)[m], BatchPhase(cases, vms, maxVms)[n])
<1>1. PICK seen : seen = SubnetsOf(cases)
  OBVIOUS
<1>2. PICK size : size = MaxSubnets(vms, maxVms)
  OBVIOUS
<1>3. PICK count : count = (Len(seen) + size - 1) \div size
  OBVIOUS
<1>4. seen \in Seq(Nat) /\ \A i, j \in DOMAIN seen : seen[i] = seen[j] => i = j
  BY <1>1, SubnetsOfFacts
<1>5. size \in Nat \ {0} /\ size * vms <= Larger(vms, maxVms)
  BY <1>2, SizeFits
<1>6. count \in Nat
  <2>1. Len(seen) \in Nat
    BY <1>4
  <2>2. Len(seen) + size - 1 \in Nat
    BY <1>5, <2>1
  <2> QED
    BY <1>3, <1>5, <2>2
<1> DEFINE of(b) == {k \in DOMAIN cases : {cases[k].src[1], cases[k].dst[1]} \subseteq BatchSubnets(seen, size, b)}
           all == [b \in 1..count |-> Kept(cases, of(b))]
           some == {b \in DOMAIN all : all[b] # <<>>}
<1>7. BatchPhase(cases, vms, maxVms) = Kept(all, some)
  BY <1>1, <1>2, <1>3 DEF BatchPhase
<1>8. ASSUME NEW b \in 1..count
      PROVE  /\ Kept(cases, of(b)) \in Seq(CaseSet)
             /\ \A i \in DOMAIN Kept(cases, of(b)) : \E k \in of(b) : Kept(cases, of(b))[i] = cases[k]
  <2>1. PICK S : S = of(b)
    OBVIOUS
  <2>2. S \in SUBSET DOMAIN cases
    BY <2>1
  <2> HIDE DEF of
  <2>3. Kept(cases, S) \in Seq(CaseSet)
    BY <2>2, KeptFacts
  <2>4. ASSUME NEW i \in DOMAIN Kept(cases, S) PROVE \E k \in S : Kept(cases, S)[i] = cases[k]
    <3>1. i \in 1..Cardinality(S)
      BY <2>2, KeptFacts
    <3>2. InOrder(S)[i] \in S /\ Kept(cases, S)[i] = cases[InOrder(S)[i]]
      BY <2>2, <3>1, KeptFacts
    <3> QED
      BY <3>2
  <2> QED
    BY <2>1, <2>3, <2>4
<1>9. \A b \in 1..count : \A k \in of(b) : /\ k \in DOMAIN cases
                                           /\ cases[k].src[1] \in BatchSubnets(seen, size, b)
                                           /\ cases[k].dst[1] \in BatchSubnets(seen, size, b)
  OBVIOUS
<1> HIDE DEF of
<1>10. all \in Seq(Seq(CaseSet)) /\ DOMAIN all = 1..count
  <2>1. all \in [1..count -> Seq(CaseSet)]
    BY <1>8
  <2> QED
    BY <1>6, <2>1
<1>11. \A b \in 1..count : all[b] = Kept(cases, of(b))
  OBVIOUS
<1> HIDE DEF all
<1>12. some \in SUBSET DOMAIN all /\ \A b \in some : all[b] # <<>>
  OBVIOUS
<1> HIDE DEF some
<1>13. PICK B : B = Kept(all, some)
  OBVIOUS
<1>21. PICK U : U = Seq(CaseSet) /\ all \in Seq(U)
  BY <1>10
<1>14. B \in Seq(Seq(CaseSet))
  <2>1. Kept(all, some) \in Seq(U)
    BY <1>12, <1>21, KeptFacts
  <2> QED
    BY <1>13, <1>21, <2>1
<1>15. DOMAIN B = 1..Cardinality(some) /\ Cardinality(some) \in Nat
  BY <1>12, <1>13, <1>21, KeptFacts
<1>16. \A n \in 1..Cardinality(some) : InOrder(some)[n] \in some /\ B[n] = all[InOrder(some)[n]]
  <2>1. \A n \in 1..Cardinality(some) : InOrder(some)[n] \in some
    BY <1>12, <1>21, KeptFacts
  <2>2. \A n \in 1..Cardinality(some) : Kept(all, some)[n] = all[InOrder(some)[n]]
    BY <1>12, <1>21, KeptFacts
  <2> QED
    BY <1>13, <2>1, <2>2
<1>17. \A m, n \in 1..Cardinality(some) : m < n => InOrder(some)[m] < InOrder(some)[n]
  BY <1>12, <1>21, KeptFacts
<1>18. \A n \in DOMAIN B : \E b \in 1..count : InOrder(some)[n] = b /\ B[n] = Kept(cases, of(b)) /\ B[n] # <<>>
  BY <1>10, <1>11, <1>12, <1>15, <1>16
<1>19. ASSUME NEW n \in DOMAIN B PROVE Batch(cases, vms, maxVms, B[n])
  <2>1. PICK b \in 1..count : B[n] = Kept(cases, of(b)) /\ B[n] # <<>>
    BY <1>18
  <2>2. PICK P : P = B[n]
    OBVIOUS
  <2>3. P \in Seq(CaseSet) /\ P # <<>> /\ \A i \in DOMAIN P : \E k \in of(b) : P[i] = cases[k]
    BY <1>8, <2>1, <2>2
  <2>4. \A i \in DOMAIN P : \E k \in DOMAIN cases : P[i] = cases[k]
    BY <1>9, <2>3
  <2>5. PICK T : T = BatchSubnets(seen, size, b)
    OBVIOUS
  <2>6. IsFiniteSet(T) /\ Cardinality(T) \in Nat /\ Cardinality(T) <= size
    <3>1. b \in Nat \ {0}
      BY <1>6
    <3> QED
      BY <1>4, <1>5, <2>5, <3>1, BatchSubnetsFacts
  <2>7. PhaseSubnets(P) \in SUBSET T
    <3>1. \A i \in DOMAIN P : P[i].src[1] \in T /\ P[i].dst[1] \in T
      BY <1>9, <2>3, <2>5
    <3> QED
      BY <3>1 DEF PhaseSubnets
  <2>8. PICK c : c = Cardinality(PhaseSubnets(P))
    OBVIOUS
  <2>9. c \in Nat /\ c <= size
    <3>1. IsFiniteSet(PhaseSubnets(P)) /\ c <= Cardinality(T)
      BY <2>6, <2>7, <2>8, FS_Subset
    <3>2. c \in Nat
      BY <2>8, <3>1, FS_CardinalityType
    <3> QED
      BY <1>5, <2>6, <3>1, <3>2
  <2>10. c * vms <= Larger(vms, maxVms)
    <3>1. PICK d \in Nat : size = c + d
      <4>1. size - c \in Nat /\ size = c + (size - c)
        BY <1>5, <2>9
      <4> QED
        BY <4>1
    <3>2. size * vms = c * vms + d * vms
      BY <2>9, <3>1
    <3>3. c * vms \in Nat /\ d * vms \in Nat
      BY <2>9, <3>1
    <3>4. Larger(vms, maxVms) \in Nat
      BY DEF Larger
    <3> QED
      BY <1>5, <3>2, <3>3, <3>4
  <2> QED
    BY <2>2, <2>3, <2>4, <2>8, <2>9, <2>10 DEF Batch
<1>20. ASSUME NEW m \in DOMAIN B, NEW n \in DOMAIN B, m # n PROVE Separate(B[m], B[n])
  <2>1. PICK a \in 1..count : InOrder(some)[m] = a /\ B[m] = Kept(cases, of(a))
    BY <1>18
  <2>2. PICK b \in 1..count : InOrder(some)[n] = b /\ B[n] = Kept(cases, of(b))
    BY <1>18
  <2>3. a # b
    <3>1. m < n \/ n < m
      BY <1>15, <1>20
    <3>2. a < b \/ b < a
      BY <1>15, <1>17, <2>1, <2>2, <3>1
    <3> QED
      BY <3>2
  <2>4. BatchSubnets(seen, size, a) \cap BatchSubnets(seen, size, b) = {}
    <3>1. a \in Nat \ {0} /\ b \in Nat \ {0}
      BY <1>6
    <3> QED
      BY <1>4, <1>5, <2>3, <3>1, BatchSubnetsFacts
  <2>5. \A i \in DOMAIN B[m] : B[m][i].src[1] \in BatchSubnets(seen, size, a)
    BY <1>8, <1>9, <2>1
  <2>6. \A i \in DOMAIN B[n] : B[n][i].src[1] \in BatchSubnets(seen, size, b)
    BY <1>8, <1>9, <2>2
  <2> QED
    BY <2>4, <2>5, <2>6 DEF Separate
<1> QED
  BY <1>7, <1>13, <1>14, <1>19, <1>20

LEMMA IntraCasesFacts ==
  ASSUME NEW rows \in Seq(NetRows), NEW vms \in Nat \ {0}
  PROVE  /\ IntraCases(rows, vms) \in Seq(CaseSet)
         /\ \A k \in DOMAIN IntraCases(rows, vms) : /\ IntraCases(rows, vms)[k].phase = Named("intra-subnet")
                                                    /\ IntraCases(rows, vms)[k].probe = "icmp"
<1>1. PICK sorted : sorted = PolicySort(rows)
  OBVIOUS
<1>2. sorted \in Seq(NetRows)
  BY <1>1, PolicySortFacts
<1>3. PICK D : D = DOMAIN sorted
  OBVIOUS
<1>4. PICK V : V = 0..vms - 1
  OBVIOUS
<1>5. PICK places : places = {p \in D \X V \X V : p[2] < p[3]}
  OBVIOUS
<1>6. D \in SUBSET Nat /\ V \in SUBSET Nat
  BY <1>2, <1>3, <1>4, RowTypes
<1>7. places \in SUBSET (Nat \X Nat \X Nat)
  BY <1>5, <1>6
<1>8. IsFiniteSet(places)
  <2>1. IsFiniteSet(D)
    BY <1>2, <1>3, DomainFinite
  <2>2. IsFiniteSet(V)
    BY <1>4, FS_Interval
  <2>3. IsFiniteSet((D \X V) \X V)
    BY <2>1, <2>2, FS_Product
  <2> DEFINE S == (D \X V) \X V
             T == D \X V \X V
             f == [p \in S |-> <<p[1][1], p[1][2], p[2]>>]
  <2>4. f \in Surjection(S, T)
    <3>1. f \in [S -> T]
      OBVIOUS
    <3>2. ASSUME NEW t \in T PROVE \E s \in S : f[s] = t
      <4>1. t[1] \in D /\ t[2] \in V /\ t[3] \in V /\ t = <<t[1], t[2], t[3]>>
        OBVIOUS
      <4>2. <<<<t[1], t[2]>>, t[3]>> \in S
        BY <4>1
      <4>3. f[<<<<t[1], t[2]>>, t[3]>>] = t
        BY <4>1, <4>2
      <4> QED
        BY <4>2, <4>3
    <3> QED
      BY <3>1, <3>2 DEF Surjection
  <2>5. IsFiniteSet(T)
    <3> HIDE DEF f, S, T
    <3>1. IsFiniteSet(S)
      BY <2>3 DEF S
    <3> QED
      BY <2>4, <3>1, FS_Surjection
  <2>6. places \in SUBSET T
    BY <1>5
  <2> QED
    BY <2>5, <2>6, FS_Subset
<1>9. PICK lex : lex = Lexicographic(places)
  OBVIOUS
<1>10. StrictlyOrders(lex, places)
  BY <1>7, <1>9, TriplesOrdered
<1>11. PICK order : order = Arranged(places, lex)
  OBVIOUS
<1>12. order \in Seq(places)
  BY <1>8, <1>10, <1>11, ArrangedFacts
<1>13. Len(order) \in Nat /\ DOMAIN order = 1..Len(order) /\ \A k \in DOMAIN order : order[k] \in places
  BY <1>12
<1> DEFINE end(k) == Endpoint(sorted[order[k][1]])
           case(k) == [Case(end(k), end(k), Named("intra-subnet"), "icmp", "PASS", "intra-subnet-direct")
                         EXCEPT !.srcVm = order[k][2], !.dstVm = order[k][3]]
<1>14. IntraCases(rows, vms) = [k \in DOMAIN order |-> case(k)]
  BY <1>1, <1>3, <1>4, <1>5, <1>9, <1>11 DEF IntraCases
<1>15. ASSUME NEW k \in DOMAIN order
       PROVE  case(k) \in CaseSet /\ case(k).phase = Named("intra-subnet") /\ case(k).probe = "icmp"
  <2>1. PICK p \in places : p = order[k]
    BY <1>13
  <2>2. p[1] \in D /\ p[2] \in Nat /\ p[3] \in Nat
    BY <1>5, <1>6, <2>1
  <2>3. PICK i \in D, a \in Nat, b \in Nat : i = p[1] /\ a = p[2] /\ b = p[3]
    BY <2>2
  <2>4. PICK e : e = Endpoint(sorted[i])
    OBVIOUS
  <2>5. e \in Nat \X Nat
    BY <1>2, <1>3, <2>4, RowTypes DEF Endpoint
  <2>6. PICK x : x = Case(e, e, Named("intra-subnet"), "icmp", "PASS", "intra-subnet-direct")
    OBVIOUS
  <2>7. x \in CaseSet
    <3>1. Named("intra-subnet") \in Phases
      BY PhaseTypes
    <3> QED
      BY <2>5, <2>6, <3>1, CaseType
  <2>8. x.phase = Named("intra-subnet") /\ x.probe = "icmp"
    BY <2>6 DEF Case
  <2>9. case(k) = [x EXCEPT !.srcVm = a, !.dstVm = b]
    BY <2>1, <2>3, <2>4, <2>6
  <2> HIDE DEF case
  <2>10. [x EXCEPT !.srcVm = a, !.dstVm = b] \in CaseSet
    BY <2>7 DEF CaseSet
  <2>11. /\ [x EXCEPT !.srcVm = a, !.dstVm = b].phase = x.phase
         /\ [x EXCEPT !.srcVm = a, !.dstVm = b].probe = x.probe
    BY <2>7 DEF CaseSet
  <2> QED
    BY <2>8, <2>9, <2>10, <2>11
<1> HIDE DEF case
<1>16. IntraCases(rows, vms) \in Seq(CaseSet) /\ DOMAIN IntraCases(rows, vms) = DOMAIN order
  <2>1. IntraCases(rows, vms) \in [1..Len(order) -> CaseSet]
    BY <1>13, <1>14, <1>15
  <2> QED
    BY <1>13, <2>1
<1>17. \A k \in DOMAIN order : IntraCases(rows, vms)[k] = case(k)
  BY <1>14
<1> QED
  BY <1>15, <1>16, <1>17

\* A phase of a run: of one kind, with VMs within bounds.
PhaseOK(c, P) ==
  /\ P \in Seq(CaseSet) /\ P # <<>>
  /\ \A i \in DOMAIN P : CaseOK(c, P[i]) /\ P[i].phase.kind = P[1].phase.kind
  /\ LET vms == IF P[1].phase.kind = "intra-subnet" THEN c.vms ELSE 1
     IN Cardinality(PhaseSubnets(P)) * vms <= Larger(vms, c.maxVms)

\* Phases of some kinds, no two of which test the same.
PhaseList(c, kinds, X) ==
  /\ X \in Seq(Seq(CaseSet))
  /\ \A n \in DOMAIN X : PhaseOK(c, X[n]) /\ X[n][1].phase.kind \in kinds
  /\ \A m, n \in DOMAIN X : m # n => Separate(X[m], X[n])

LEMMA EmptyPhaseList ==
  ASSUME NEW c, NEW kinds PROVE PhaseList(c, kinds, <<>>)
<1>1. DOMAIN <<>> = {} /\ <<>> \in Seq(Seq(CaseSet))
  OBVIOUS
<1> QED
  BY <1>1 DEF PhaseList

LEMMA OneKind ==
  ASSUME NEW c, ConfigOK(c), NEW kind, NEW cases \in Seq(CaseSet),
         \A k \in DOMAIN cases : CaseOK(c, cases[k]) /\ cases[k].phase.kind = kind,
         NEW vms \in Nat \ {0}, vms = IF kind = "intra-subnet" THEN c.vms ELSE 1
  PROVE  PhaseList(c, {kind}, BatchPhase(cases, vms, c.maxVms))
<1>1. PICK X : X = BatchPhase(cases, vms, c.maxVms)
  OBVIOUS
<1>2. PICK maxVms \in Nat : maxVms = c.maxVms
  BY DEF ConfigOK
<1>3. X \in Seq(Seq(CaseSet))
  BY <1>1, <1>2, BatchPhaseFacts
<1>4. \A n \in DOMAIN X : Batch(cases, vms, maxVms, X[n])
  BY <1>1, <1>2, BatchPhaseFacts
<1>5. \A m, n \in DOMAIN X : m # n => Separate(X[m], X[n])
  BY <1>1, <1>2, BatchPhaseFacts
<1>6. ASSUME NEW n \in DOMAIN X PROVE PhaseOK(c, X[n]) /\ X[n][1].phase.kind = kind
  <2>1. PICK P : P = X[n]
    OBVIOUS
  <2>2. /\ P \in Seq(CaseSet) /\ P # <<>>
        /\ \A i \in DOMAIN P : \E k \in DOMAIN cases : P[i] = cases[k]
        /\ Cardinality(PhaseSubnets(P)) * vms <= Larger(vms, maxVms)
    BY <1>4, <2>1 DEF Batch
  <2>3. \A i \in DOMAIN P : CaseOK(c, P[i]) /\ P[i].phase.kind = kind
    BY <2>2
  <2>4. 1 \in DOMAIN P
    BY <2>2
  <2>5. P[1].phase.kind = kind
    BY <2>3, <2>4
  <2> QED
    BY <1>2, <2>1, <2>2, <2>3, <2>5 DEF PhaseOK
<1> QED
  BY <1>1, <1>3, <1>5, <1>6 DEF PhaseList

LEMMA TwoLists ==
  ASSUME NEW c, NEW K, NEW L, K \cap L = {}, NEW X, NEW Y, PhaseList(c, K, X), PhaseList(c, L, Y)
  PROVE  PhaseList(c, K \cup L, X \o Y)
<1>1. PICK U : U = Seq(CaseSet)
  OBVIOUS
<1>2. X \in Seq(U) /\ Y \in Seq(U)
  BY <1>1 DEF PhaseList
<1>3. PICK Z : Z = X \o Y
  OBVIOUS
<1>4. /\ Z \in Seq(U) /\ Len(X) \in Nat /\ Len(Y) \in Nat
      /\ DOMAIN Z = 1..(Len(X) + Len(Y)) /\ DOMAIN X = 1..Len(X) /\ DOMAIN Y = 1..Len(Y)
      /\ \A k \in 1..(Len(X) + Len(Y)) : Z[k] = IF k <= Len(X) THEN X[k] ELSE Y[k - Len(X)]
  BY <1>2, <1>3
<1>5. \A k \in DOMAIN Z : \/ k <= Len(X) /\ k \in DOMAIN X /\ Z[k] = X[k]
                          \/ ~(k <= Len(X)) /\ k - Len(X) \in DOMAIN Y /\ Z[k] = Y[k - Len(X)]
  BY <1>4
<1>6. \A k \in DOMAIN Z : PhaseOK(c, Z[k]) /\ Z[k][1].phase.kind \in K \cup L
  BY <1>5 DEF PhaseList
<1>7. ASSUME NEW m \in DOMAIN X, NEW n \in DOMAIN Y PROVE Separate(X[m], Y[n]) /\ Separate(Y[n], X[m])
  <2>1. \A i \in DOMAIN X[m], j \in DOMAIN Y[n] : X[m][i].phase.kind \in K /\ Y[n][j].phase.kind \in L
    BY DEF PhaseList, PhaseOK
  <2>2. \A i \in DOMAIN X[m], j \in DOMAIN Y[n] : X[m][i].phase # Y[n][j].phase
    BY <2>1
  <2> QED
    BY <2>2 DEF Separate
<1>8. ASSUME NEW m \in DOMAIN Z, NEW n \in DOMAIN Z, m # n PROVE Separate(Z[m], Z[n])
  <2>1. CASE m <= Len(X) /\ n <= Len(X)
    BY <1>5, <1>8, <2>1 DEF PhaseList
  <2>2. CASE m <= Len(X) /\ ~(n <= Len(X))
    BY <1>5, <1>7, <2>2
  <2>3. CASE ~(m <= Len(X)) /\ n <= Len(X)
    BY <1>5, <1>7, <2>3
  <2>4. CASE ~(m <= Len(X)) /\ ~(n <= Len(X))
    <3>1. m - Len(X) # n - Len(X)
      BY <1>4, <1>8
    <3> QED
      BY <1>5, <2>4, <3>1 DEF PhaseList
  <2> QED
    BY <2>1, <2>2, <2>3, <2>4
<1> QED
  BY <1>1, <1>3, <1>4, <1>6, <1>8 DEF PhaseList

LEMMA PairsOK ==
  ASSUME NEW c, ConfigOK(c), NEW passSet
  PROVE  /\ PairCases(c.rows, passSet) \in Seq(CaseSet)
         /\ \A k \in DOMAIN PairCases(c.rows, passSet) : CaseOK(c, PairCases(c.rows, passSet)[k])
<1>1. PICK rows \in Seq(NetRows) : rows = c.rows
  BY DEF ConfigOK
<1>2. PICK G : G = GenerateTestCases(rows)
  OBVIOUS
<1>3. PICK pairs : pairs = PairCases(rows, passSet)
  OBVIOUS
<1>4. pairs \in Seq(CaseSet)
  BY <1>3, PairCasesFacts
<1>5. \A k \in DOMAIN pairs : /\ k \in DOMAIN G /\ pairs[k].src = G[k].src /\ pairs[k].dst = G[k].dst
                              /\ pairs[k].phase.kind \in Pairwise \ {"network"} /\ pairs[k].probe = "icmp"
  BY <1>2, <1>3, PairCasesFacts
<1>6. \A k \in DOMAIN pairs : pairs[k] \in CaseSet
  BY <1>4
<1>7. "custom" \notin Pairwise
  BY DEF Pairwise
<1>8. \A k \in DOMAIN pairs : CaseOK(c, pairs[k])
  BY <1>1, <1>2, <1>5, <1>6, <1>7 DEF CaseOK, ProbeOf
<1> QED
  BY <1>1, <1>3, <1>4, <1>8

LEMMA PhasesOfFacts ==
  ASSUME NEW c, ConfigOK(c)
  PROVE  PhaseList(c, {"intra-subnet", "intra-vrf", "cross-vrf-allowlist", "cross-vrf-block"}, PhasesOf(c))
<1>1. PICK pairs : pairs = PairCases(c.rows, PassSet(c.links))
  OBVIOUS
<1>2. /\ c.rows \in Seq(NetRows) /\ c.vms \in Nat \ {0} /\ c.maxVms \in Nat
  BY DEF ConfigOK
<1>13. pairs \in Seq(CaseSet) /\ \A k \in DOMAIN pairs : CaseOK(c, pairs[k])
  BY <1>1, PairsOK
<1> DEFINE ofKind(kind) == Kept(pairs, {k \in DOMAIN pairs : pairs[k].phase.kind = kind})
           pairPhases(kind) == IF kind \in c.enabled THEN BatchPhase(ofKind(kind), 1, c.maxVms) ELSE <<>>
           intra == IF "intra-subnet" \in c.enabled THEN BatchPhase(IntraCases(c.rows, c.vms), c.vms, c.maxVms)
                    ELSE <<>>
<1>3. PhasesOf(c) = intra \o pairPhases("intra-vrf") \o pairPhases("cross-vrf-allowlist")
                      \o pairPhases("cross-vrf-block")
  BY <1>1 DEF PhasesOf, GeneratePhasedCases
<1>4. PhaseList(c, {"intra-subnet"}, intra)
  <2>1. PICK I : I = IntraCases(c.rows, c.vms)
    OBVIOUS
  <2>2. I \in Seq(CaseSet)
        /\ \A k \in DOMAIN I : I[k].phase = Named("intra-subnet") /\ I[k].probe = "icmp"
    BY <1>2, <2>1, IntraCasesFacts
  <2>3. Named("intra-subnet").kind = "intra-subnet" /\ "intra-subnet" \notin Pairwise
    BY DEF Named, Pairwise
  <2>4. \A k \in DOMAIN I : I[k] \in CaseSet
    BY <2>2
  <2>5. \A k \in DOMAIN I : CaseOK(c, I[k]) /\ I[k].phase.kind = "intra-subnet"
    BY <2>2, <2>3, <2>4 DEF CaseOK, ProbeOf
  <2>6. PhaseList(c, {"intra-subnet"}, BatchPhase(I, c.vms, c.maxVms))
    BY <1>2, <2>2, <2>5, OneKind
  <2> QED
    BY <2>1, <2>6, EmptyPhaseList
<1>5. ASSUME NEW kind, kind # "intra-subnet" PROVE PhaseList(c, {kind}, pairPhases(kind))
  <2>4. PICK S : S = {k \in DOMAIN pairs : pairs[k].phase.kind = kind}
    OBVIOUS
  <2>5. PICK some : some = Kept(pairs, S)
    OBVIOUS
  <2>1. some = ofKind(kind)
    BY <2>4, <2>5
  <2>6. S \in SUBSET DOMAIN pairs /\ \A k \in S : pairs[k].phase.kind = kind
    BY <2>4
  <2>2. /\ some \in Seq(CaseSet)
        /\ \A k \in DOMAIN some : CaseOK(c, some[k]) /\ some[k].phase.kind = kind
    <3>1. some \in Seq(CaseSet)
      BY <1>13, <2>5, <2>6, KeptFacts
    <3>2. DOMAIN some = 1..Cardinality(S)
      BY <1>13, <2>5, <2>6, KeptFacts
    <3>3. \A k \in 1..Cardinality(S) : InOrder(S)[k] \in S /\ some[k] = pairs[InOrder(S)[k]]
      BY <1>13, <2>5, <2>6, KeptFacts
    <3> QED
      BY <1>13, <2>6, <3>1, <3>2, <3>3
  <2>3. PhaseList(c, {kind}, BatchPhase(some, 1, c.maxVms))
    <3>1. 1 \in Nat \ {0}
      OBVIOUS
    <3> QED
      BY <1>5, <2>2, <3>1, OneKind
  <2> QED
    BY <2>1, <2>3, EmptyPhaseList
<1> HIDE DEF intra, pairPhases
<1>6. PhaseList(c, {"intra-subnet"} \cup {"intra-vrf"}, intra \o pairPhases("intra-vrf"))
  BY <1>4, <1>5, TwoLists
<1>7. PhaseList(c, ({"intra-subnet"} \cup {"intra-vrf"}) \cup {"cross-vrf-allowlist"},
                intra \o pairPhases("intra-vrf") \o pairPhases("cross-vrf-allowlist"))
  BY <1>5, <1>6, TwoLists
<1>8. PICK K : K = ({"intra-subnet"} \cup {"intra-vrf"}) \cup {"cross-vrf-allowlist"}
  OBVIOUS
<1>9. PICK X : X = intra \o pairPhases("intra-vrf") \o pairPhases("cross-vrf-allowlist")
  OBVIOUS
<1>10. PhaseList(c, K, X)
  BY <1>7, <1>8, <1>9
<1>11. PhaseList(c, K \cup {"cross-vrf-block"}, X \o pairPhases("cross-vrf-block"))
  <2>1. K \cap {"cross-vrf-block"} = {}
    BY <1>8
  <2>2. PhaseList(c, {"cross-vrf-block"}, pairPhases("cross-vrf-block"))
    BY <1>5
  <2> QED
    BY <1>10, <2>1, <2>2, TwoLists
<1>12. K \cup {"cross-vrf-block"} = {"intra-subnet", "intra-vrf", "cross-vrf-allowlist", "cross-vrf-block"}
  BY <1>8
<1> QED
  BY <1>3, <1>9, <1>11, <1>12

(***************************************************************************)
(* Results of checks                                                       *)
(***************************************************************************)

LEMMA OutcomeFacts ==
  ASSUME NEW x \in CaseSet, NEW actual \in {"OBSERVE", "PASS", "FAIL", "UNKNOWN"}, NEW reason \in Ways
  PROVE  /\ Outcome(x, actual, reason) \in ResultSet
         /\ Outcome(x, actual, reason).src = x.src /\ Outcome(x, actual, reason).dst = x.dst
         /\ Outcome(x, actual, reason).srcVm = x.srcVm /\ Outcome(x, actual, reason).dstVm = x.dstVm
         /\ Outcome(x, actual, reason).phase = x.phase /\ Outcome(x, actual, reason).probe = x.probe
         /\ Outcome(x, actual, reason).expected = x.expected
         /\ Outcome(x, actual, reason).status = StatusFromExpectation(x.expected, actual)
<1>1. StatusFromExpectation(x.expected, actual) \in {"pass", "fail"}
  BY DEF StatusFromExpectation
<1>2. PICK s \in {"pass", "fail"} : s = StatusFromExpectation(x.expected, actual)
  BY <1>1
<1>3. Outcome(x, actual, reason) =
        [src |-> x.src, dst |-> x.dst, srcVm |-> x.srcVm, dstVm |-> x.dstVm, phase |-> x.phase,
         probe |-> x.probe, expected |-> x.expected, actual |-> actual, status |-> s, reason |-> reason]
  BY <1>2 DEF Outcome
<1>4. /\ x.src \in Nat \X Nat /\ x.dst \in Nat \X Nat /\ x.srcVm \in Nat /\ x.dstVm \in Nat
      /\ x.phase \in Phases /\ x.probe \in {"icmp", "tcp"} /\ x.expected \in {"OBSERVE", "PASS", "FAIL"}
  BY DEF CaseSet
<1> QED
  BY <1>2, <1>3, <1>4 DEF ResultSet

LEMMA DryRunFacts ==
  ASSUME NEW x \in CaseSet
  PROVE  /\ DryRun(x) \in ResultSet
         /\ DryRun(x).src = x.src /\ DryRun(x).dst = x.dst /\ DryRun(x).srcVm = x.srcVm
         /\ DryRun(x).dstVm = x.dstVm /\ DryRun(x).phase = x.phase /\ DryRun(x).probe = x.probe
         /\ DryRun(x).expected = x.expected /\ DryRun(x).status = "pass"
<1>1. PICK r : r = Outcome(x, x.expected, "dry-run-expected-as-actual")
  OBVIOUS
<1>2. /\ r \in ResultSet /\ r.src = x.src /\ r.dst = x.dst /\ r.srcVm = x.srcVm /\ r.dstVm = x.dstVm
      /\ r.phase = x.phase /\ r.probe = x.probe /\ r.expected = x.expected
  <2>1. x.expected \in {"OBSERVE", "PASS", "FAIL", "UNKNOWN"} /\ "dry-run-expected-as-actual" \in Ways
    BY DEF CaseSet, Ways
  <2> QED
    BY <1>1, <2>1, OutcomeFacts
<1>3. DryRun(x) = [r EXCEPT !.status = "pass"]
  BY <1>1 DEF DryRun
<1> QED
  BY <1>2, <1>3 DEF ResultSet

LEMMA ControllerFacts ==
  ASSUME NEW cases, NEW k, NEW x \in CaseSet, x = cases[k], NEW found,
         found[GatewayOf(x)] \in {"PASS", "FAIL"}
  PROVE  /\ FromController(cases, k, found) \in ResultSet
         /\ FromController(cases, k, found).src = <<x.src[1], 0>>
         /\ FromController(cases, k, found).dst = <<x.dst[1], 0>>
         /\ FromController(cases, k, found).srcVm = x.srcVm /\ FromController(cases, k, found).dstVm = x.dstVm
         /\ FromController(cases, k, found).phase = x.phase /\ FromController(cases, k, found).probe = "icmp"
         /\ FromController(cases, k, found).expected = x.expected
         /\ FromController(cases, k, found).status = StatusFromExpectation(x.expected, found[GatewayOf(x)])
<1>1. PICK way \in Ways :
        FromController(cases, k, found) =
          [Outcome(x, found[GatewayOf(x)], way)
             EXCEPT !.src = <<x.src[1], 0>>, !.dst = <<x.dst[1], 0>>, !.probe = "icmp"]
  <2>1. PICK way : way = IF \E j \in 1..(k - 1) : GatewayOf(cases[j]) = GatewayOf(x) THEN "controller-cached"
                         ELSE IF x.probe = "tcp" THEN "controller-tcp-to-dst-gw" ELSE "controller-icmp-to-dst-gw"
    OBVIOUS
  <2>2. way \in Ways
    BY <2>1 DEF Ways
  <2> QED
    BY <2>1, <2>2 DEF FromController
<1>2. PICK actual \in {"PASS", "FAIL"} : actual = found[GatewayOf(x)]
  OBVIOUS
<1>3. PICK r : r = Outcome(x, actual, way)
  OBVIOUS
<1>4. /\ r \in ResultSet /\ r.srcVm = x.srcVm /\ r.dstVm = x.dstVm /\ r.phase = x.phase
      /\ r.expected = x.expected /\ r.status = StatusFromExpectation(x.expected, actual)
  BY <1>3, OutcomeFacts
<1>5. PICK src, dst : src = <<x.src[1], 0>> /\ dst = <<x.dst[1], 0>>
  OBVIOUS
<1>6. src \in Nat \X Nat /\ dst \in Nat \X Nat
  BY <1>5 DEF CaseSet
<1>7. FromController(cases, k, found) = [r EXCEPT !.src = src, !.dst = dst, !.probe = "icmp"]
  BY <1>1, <1>2, <1>3, <1>5
<1>8. PICK q : q = [r EXCEPT !.src = src, !.dst = dst, !.probe = "icmp"]
  OBVIOUS
<1>9. /\ q \in ResultSet /\ q.src = src /\ q.dst = dst /\ q.probe = "icmp" /\ q.srcVm = r.srcVm
      /\ q.dstVm = r.dstVm /\ q.phase = r.phase /\ q.expected = r.expected /\ q.status = r.status
  BY <1>4, <1>6, <1>8 DEF ResultSet
<1> QED
  BY <1>2, <1>4, <1>5, <1>7, <1>8, <1>9

\* What a VM's report says of a case.
GuestFinds(x, subnets, found) ==
  IF \/ x.src[1] \notin subnets
     \/ {t \in DOMAIN found : t[1] = x.src[1] /\ t[2] = x.srcVm /\ found[t] # "NONE"} = {}
     \/ found[TargetOf(x)] = "NONE"
  THEN "UNKNOWN" ELSE found[TargetOf(x)]

LEMMA GuestFacts ==
  ASSUME NEW x \in CaseSet, NEW subnets, NEW found, found[TargetOf(x)] \in {"PASS", "FAIL", "NONE"}
  PROVE  /\ FromGuest(x, subnets, found) \in ResultSet
         /\ FromGuest(x, subnets, found).src = x.src /\ FromGuest(x, subnets, found).dst = x.dst
         /\ FromGuest(x, subnets, found).srcVm = x.srcVm /\ FromGuest(x, subnets, found).dstVm = x.dstVm
         /\ FromGuest(x, subnets, found).phase = x.phase
         /\ FromGuest(x, subnets, found).expected = x.expected
         /\ FromGuest(x, subnets, found).status
              = StatusFromExpectation(x.expected, GuestFinds(x, subnets, found))
<1>1. PICK actual \in {"PASS", "FAIL", "UNKNOWN"} : actual = GuestFinds(x, subnets, found)
  BY DEF GuestFinds
<1>2. PICK way \in Ways : \/ FromGuest(x, subnets, found) = Outcome(x, actual, way)
                         \/ FromGuest(x, subnets, found) = [Outcome(x, actual, way) EXCEPT !.probe = "icmp"]
  <2>1. CASE x.src[1] \notin subnets
    <3>1. FromGuest(x, subnets, found) = [Outcome(x, actual, "src-vm-not-found") EXCEPT !.probe = "icmp"]
      BY <1>1, <2>1 DEF FromGuest, GuestFinds
    <3>2. "src-vm-not-found" \in Ways
      BY DEF Ways
    <3> QED
      BY <3>1, <3>2
  <2>2. CASE /\ x.src[1] \in subnets
             /\ {t \in DOMAIN found : t[1] = x.src[1] /\ t[2] = x.srcVm /\ found[t] # "NONE"} = {}
    <3>1. FromGuest(x, subnets, found) = Outcome(x, actual, "probe-unavailable") /\ "probe-unavailable" \in Ways
      BY <1>1, <2>2 DEF FromGuest, GuestFinds, Ways
    <3> QED
      BY <3>1
  <2>3. CASE /\ x.src[1] \in subnets
             /\ {t \in DOMAIN found : t[1] = x.src[1] /\ t[2] = x.srcVm /\ found[t] # "NONE"} # {}
    <3>1. PICK way \in {"tcp-from-src-vm", "icmp-from-src-vm"} :
            way = IF x.probe = "tcp" THEN "tcp-from-src-vm" ELSE "icmp-from-src-vm"
      OBVIOUS
    <3>2. FromGuest(x, subnets, found) = Outcome(x, actual, way)
      BY <1>1, <2>3, <3>1 DEF FromGuest, GuestFinds
    <3>3. way \in Ways
      BY DEF Ways
    <3> QED
      BY <3>2, <3>3
  <2> QED
    BY <2>1, <2>2, <2>3
<1>3. PICK r : r = Outcome(x, actual, way)
  OBVIOUS
<1>4. /\ r \in ResultSet /\ r.src = x.src /\ r.dst = x.dst /\ r.srcVm = x.srcVm /\ r.dstVm = x.dstVm
      /\ r.phase = x.phase /\ r.expected = x.expected /\ r.status = StatusFromExpectation(x.expected, actual)
  BY <1>3, OutcomeFacts
<1>5. PICK q : q = [r EXCEPT !.probe = "icmp"]
  OBVIOUS
<1>6. /\ q \in ResultSet /\ q.src = r.src /\ q.dst = r.dst /\ q.srcVm = r.srcVm /\ q.dstVm = r.dstVm
      /\ q.phase = r.phase /\ q.expected = r.expected /\ q.status = r.status
  BY <1>4, <1>5 DEF ResultSet
<1>7. FromGuest(x, subnets, found) = r \/ FromGuest(x, subnets, found) = q
  BY <1>2, <1>3, <1>5
<1> QED
  BY <1>1, <1>4, <1>6, <1>7

\* The checks of cases give one result of each, and those with the same key agree.
LEMMA RunChecksFacts ==
  ASSUME NEW cases \in Seq(CaseSet),
         \A j, k \in DOMAIN cases : cases[j].phase = cases[k].phase => cases[j].probe = cases[k].probe,
         NEW mode \in Modes, NEW subnets, NEW found \in Findings(cases, mode),
         NEW new, new = RunChecks(cases, mode, subnets, found), mode = config.mode
  PROVE  /\ new \in Seq(ResultSet) /\ DOMAIN new = DOMAIN cases
         /\ \A k \in DOMAIN cases : ResultOf(new[k], cases[k])
         /\ \A j, k \in DOMAIN cases : ResultKey(new[j]) = ResultKey(new[k]) => new[j].status = new[k].status
<1>1. PICK n \in Nat : n = Len(cases) /\ DOMAIN cases = 1..n
  OBVIOUS
<1>2. \A k \in DOMAIN cases : cases[k] \in CaseSet
  OBVIOUS
<1>3. CASE mode = "dry-run"
  <2>1. new = [k \in DOMAIN cases |-> DryRun(cases[k])]
    BY <1>3 DEF RunChecks
  <2>2. \A k \in DOMAIN cases : /\ new[k] \in ResultSet /\ ResultOf(new[k], cases[k]) /\ new[k].status = "pass"
    BY <1>2, <2>1, DryRunFacts DEF ResultOf
  <2>3. new \in Seq(ResultSet) /\ DOMAIN new = DOMAIN cases
    <3>1. new \in [1..n -> ResultSet]
      BY <1>1, <2>1, <2>2
    <3> QED
      BY <1>1, <3>1
  <2> QED
    BY <2>2, <2>3
<1>4. CASE mode = "controller-gateway"
  <2>1. new = [k \in DOMAIN cases |-> FromController(cases, k, found)]
    BY <1>4 DEF RunChecks
  <2>2. \A k \in DOMAIN cases : found[GatewayOf(cases[k])] \in {"PASS", "FAIL"}
    BY <1>4 DEF Findings
  <2>3. ASSUME NEW k \in DOMAIN cases
        PROVE  /\ new[k] \in ResultSet
               /\ new[k].src = <<cases[k].src[1], 0>> /\ new[k].dst = <<cases[k].dst[1], 0>>
               /\ new[k].srcVm = cases[k].srcVm /\ new[k].dstVm = cases[k].dstVm
               /\ new[k].phase = cases[k].phase /\ new[k].expected = cases[k].expected
               /\ new[k].status = StatusFromExpectation(cases[k].expected, found[GatewayOf(cases[k])])
    <3>1. PICK x \in CaseSet : x = cases[k] /\ found[GatewayOf(x)] \in {"PASS", "FAIL"}
      BY <1>2, <2>2
    <3>2. new[k] = FromController(cases, k, found)
      BY <2>1
    <3> QED
      BY <3>1, <3>2, ControllerFacts
  <2>4. \A k \in DOMAIN cases : ResultOf(new[k], cases[k])
    BY <1>4, <2>3 DEF ResultOf
  <2>5. new \in Seq(ResultSet) /\ DOMAIN new = DOMAIN cases
    <3>1. new \in [1..n -> ResultSet]
      BY <1>1, <2>1, <2>3
    <3> QED
      BY <1>1, <3>1
  <2>6. ASSUME NEW j \in DOMAIN cases, NEW k \in DOMAIN cases, ResultKey(new[j]) = ResultKey(new[k])
        PROVE  new[j].status = new[k].status
    <3>1. /\ new[j].dst = new[k].dst /\ new[j].phase = new[k].phase /\ new[j].expected = new[k].expected
      BY <2>6 DEF ResultKey
    <3>2. /\ cases[j].dst[1] = cases[k].dst[1] /\ cases[j].phase = cases[k].phase
          /\ cases[j].expected = cases[k].expected
      BY <2>3, <3>1
    <3>3. cases[j].probe = cases[k].probe
      BY <3>2
    <3>4. GatewayOf(cases[j]) = GatewayOf(cases[k])
      BY <3>2, <3>3 DEF GatewayOf
    <3> QED
      BY <2>3, <3>2, <3>4
  <2> QED
    BY <2>4, <2>5, <2>6
<1>5. CASE mode = "in-guest"
  <2>1. new = [k \in DOMAIN cases |-> FromGuest(cases[k], subnets, found)]
    BY <1>5 DEF RunChecks
  <2>2. \A k \in DOMAIN cases : found[TargetOf(cases[k])] \in {"PASS", "FAIL", "NONE"}
    BY <1>5 DEF Findings
  <2>3. ASSUME NEW k \in DOMAIN cases
        PROVE  /\ new[k] \in ResultSet /\ new[k].src = cases[k].src /\ new[k].dst = cases[k].dst
               /\ new[k].srcVm = cases[k].srcVm /\ new[k].dstVm = cases[k].dstVm
               /\ new[k].phase = cases[k].phase /\ new[k].expected = cases[k].expected
               /\ new[k].status = StatusFromExpectation(cases[k].expected, GuestFinds(cases[k], subnets, found))
    <3>1. PICK x \in CaseSet : x = cases[k] /\ found[TargetOf(x)] \in {"PASS", "FAIL", "NONE"}
      BY <1>2, <2>2
    <3>2. new[k] = FromGuest(x, subnets, found)
      BY <2>1, <3>1
    <3> QED
      BY <3>1, <3>2, GuestFacts
  <2>4. \A k \in DOMAIN cases : ResultOf(new[k], cases[k])
    BY <2>3 DEF ResultOf
  <2>5. new \in Seq(ResultSet) /\ DOMAIN new = DOMAIN cases
    <3>1. new \in [1..n -> ResultSet]
      BY <1>1, <2>1, <2>3
    <3> QED
      BY <1>1, <3>1
  <2>6. ASSUME NEW j \in DOMAIN cases, NEW k \in DOMAIN cases, ResultKey(new[j]) = ResultKey(new[k])
        PROVE  new[j].status = new[k].status
    <3>1. /\ new[j].src = new[k].src /\ new[j].dst = new[k].dst /\ new[j].srcVm = new[k].srcVm
          /\ new[j].dstVm = new[k].dstVm /\ new[j].expected = new[k].expected
      BY <2>6 DEF ResultKey
    <3>2. /\ cases[j].src = cases[k].src /\ cases[j].dst = cases[k].dst /\ cases[j].srcVm = cases[k].srcVm
          /\ cases[j].dstVm = cases[k].dstVm /\ cases[j].expected = cases[k].expected
      BY <2>3, <3>1
    <3>3. GuestFinds(cases[j], subnets, found) = GuestFinds(cases[k], subnets, found)
      BY <3>2 DEF GuestFinds, TargetOf
    <3> QED
      BY <2>3, <3>2, <3>3
  <2> QED
    BY <2>4, <2>5, <2>6
<1> QED
  BY <1>3, <1>4, <1>5 DEF Modes

(***************************************************************************)
(* Merged results                                                          *)
(***************************************************************************)

LEMMA Extremes ==
  ASSUME NEW n \in Nat, NEW S \in SUBSET (1..n), S # {}
  PROVE  /\ \E j \in S : \A m \in S : m <= j
         /\ \E j \in S : \A m \in S : j <= m
<1>1. IsFiniteSet(S) /\ S \in SUBSET Int
  <2>1. IsFiniteSet(1..n)
    BY FS_Interval
  <2>2. IsFiniteSet(S)
    BY <2>1, FS_Subset
  <2> QED
    BY <2>2
<1>2. PICK c : c = Cardinality(S)
  OBVIOUS
<1>3. c \in Nat \ {0}
  BY <1>1, <1>2, FS_CardinalityType, FS_EmptySet
<1>4. PICK P : P = InOrder(S)
  OBVIOUS
<1>5. /\ \A k \in 1..c : P[k] \in S
      /\ \A j, k \in 1..c : j < k => P[j] < P[k]
      /\ \A m \in S : \E k \in 1..c : P[k] = m
  <2>1. \A k \in 1..c : P[k] \in S
    BY <1>1, <1>2, <1>4, InOrderFacts
  <2>2. \A j, k \in 1..c : j < k => P[j] < P[k]
    BY <1>1, <1>2, <1>4, InOrderFacts
  <2>3. \A m \in S : \E k \in 1..c : P[k] = m
    BY <1>1, <1>2, <1>4, InOrderFacts
  <2> QED
    BY <2>1, <2>2, <2>3
<1>6. 1 \in 1..c /\ c \in 1..c
  BY <1>3
<1>7. ASSUME NEW m \in S PROVE P[1] <= m /\ m <= P[c]
  <2>1. PICK k \in 1..c : P[k] = m
    BY <1>5
  <2>2. m \in Int /\ P[1] \in Int /\ P[c] \in Int
    BY <1>1, <1>5, <1>6
  <2>3. k = 1 \/ 1 < k
    BY <1>3
  <2>4. k = c \/ k < c
    BY <1>3
  <2>5. P[1] = m \/ P[1] < m
    BY <1>5, <1>6, <2>1, <2>3
  <2>6. m = P[c] \/ m < P[c]
    BY <1>5, <1>6, <2>1, <2>4
  <2> QED
    BY <2>2, <2>5, <2>6
<1> QED
  BY <1>5, <1>6, <1>7

KeyIsNew(r, others) == \A k \in DOMAIN others : ResultKey(others[k]) # ResultKey(r)

\* Merged results have every key once, with the newest of its results.
LEMMA MergeFacts ==
  ASSUME NEW prior \in Seq(ResultSet), NEW new \in Seq(ResultSet), NEW M, M = MergeRetryResults(prior, new),
         \A i, j \in DOMAIN prior : ResultKey(prior[i]) = ResultKey(prior[j]) => i = j
  PROVE  /\ M \in Seq(ResultSet)
         /\ \A i, j \in DOMAIN M : ResultKey(M[i]) = ResultKey(M[j]) => i = j
         /\ \A i \in DOMAIN M : (\E j \in DOMAIN prior : M[i] = prior[j]) \/ (\E k \in DOMAIN new : M[i] = new[k])
         /\ \A k \in DOMAIN new : \E i \in DOMAIN M, l \in DOMAIN new :
              M[i] = new[l] /\ ResultKey(new[l]) = ResultKey(new[k])
         /\ \A j \in DOMAIN prior : KeyIsNew(prior[j], new) => \E i \in DOMAIN M : M[i] = prior[j]
<1> DEFINE all == prior \o new
           same(i, j) == ResultKey(all[i]) = ResultKey(all[j])
           latest(i) == CHOOSE j \in DOMAIN all : same(i, j) /\ \A m \in DOMAIN all : same(i, m) => m <= j
           firsts == {i \in DOMAIN all : \A j \in 1..(i - 1) : ~same(i, j)}
           newest == [i \in DOMAIN all |-> all[latest(i)]]
<1>1. all = prior \o new
  OBVIOUS
<1>2. M = Kept(newest, firsts)
  BY DEF MergeRetryResults
<1> HIDE DEF all
<1>3. PICK p \in Nat, n \in Nat :
        /\ p = Len(prior) /\ n = Len(new) /\ DOMAIN prior = 1..p /\ DOMAIN new = 1..n
  OBVIOUS
<1>4. /\ all \in Seq(ResultSet) /\ DOMAIN all = 1..(p + n) /\ p + n \in Nat
      /\ \A k \in 1..(p + n) : all[k] = IF k <= p THEN prior[k] ELSE new[k - p]
  <2>1. all \in Seq(ResultSet)
    BY <1>1
  <2>2. DOMAIN all = 1..(p + n) /\ p + n \in Nat
    BY <1>1, <1>3
  <2>3. \A k \in 1..(p + n) : all[k] = IF k <= p THEN prior[k] ELSE new[k - p]
    BY <1>1, <1>3
  <2> QED
    BY <2>1, <2>2, <2>3
<1>5. ASSUME NEW i \in DOMAIN all
      PROVE  /\ latest(i) \in DOMAIN all /\ same(i, latest(i))
             /\ \A m \in DOMAIN all : same(i, m) => m <= latest(i)
  <2>1. PICK S : S = {j \in DOMAIN all : same(i, j)}
    OBVIOUS
  <2>2. S \in SUBSET (1..(p + n)) /\ i \in S
    BY <1>4, <2>1
  <2>3. \E j \in S : \A m \in S : m <= j
    BY <1>4, <2>2, Extremes
  <2>4. \E j \in DOMAIN all : same(i, j) /\ \A m \in DOMAIN all : same(i, m) => m <= j
    BY <2>1, <2>3
  <2> QED
    BY <2>4
<1>6. ASSUME NEW i \in DOMAIN all PROVE \E f \in firsts : same(i, f)
  <2>1. PICK S : S = {j \in DOMAIN all : same(i, j)}
    OBVIOUS
  <2>2. S \in SUBSET (1..(p + n)) /\ i \in S
    BY <1>4, <2>1
  <2>3. PICK f \in S : \A m \in S : f <= m
    BY <1>4, <2>2, Extremes
  <2>4. f \in DOMAIN all /\ same(i, f)
    BY <2>1
  <2>5. ASSUME NEW j \in 1..(f - 1), same(f, j) PROVE FALSE
    <3>1. j \in DOMAIN all /\ j < f
      BY <1>4, <2>4
    <3>2. j \in S
      BY <2>1, <2>4, <2>5, <3>1
    <3>3. f <= j
      BY <2>3, <3>2
    <3> QED
      BY <1>4, <2>4, <3>1, <3>3
  <2> QED
    BY <2>4, <2>5
<1>7. firsts \in SUBSET DOMAIN all
  OBVIOUS
<1>8. ASSUME NEW i \in firsts, NEW j \in firsts, same(i, j) PROVE i = j
  <2>1. i \in Nat /\ j \in Nat /\ i >= 1 /\ j >= 1
    BY <1>4, <1>7
  <2>2. ~(i < j)
    <3> SUFFICES ASSUME i < j PROVE FALSE
      OBVIOUS
    <3>1. i \in 1..(j - 1)
      BY <2>1
    <3>2. ~same(j, i)
      BY <3>1
    <3> QED
      BY <1>8, <3>2
  <2>3. ~(j < i)
    <3> SUFFICES ASSUME j < i PROVE FALSE
      OBVIOUS
    <3>1. j \in 1..(i - 1)
      BY <2>1
    <3>2. ~same(i, j)
      BY <3>1
    <3> QED
      BY <1>8, <3>2
  <2> QED
    BY <2>1, <2>2, <2>3
<1> HIDE DEF latest, firsts
<1>9. newest \in Seq(ResultSet) /\ DOMAIN newest = DOMAIN all
  <2>1. \A i \in DOMAIN all : all[latest(i)] \in ResultSet
    BY <1>4, <1>5
  <2>2. newest \in [1..(p + n) -> ResultSet]
    BY <1>4, <2>1
  <2> QED
    BY <1>4, <2>2
<1>10. \A i \in DOMAIN all : newest[i] = all[latest(i)]
  OBVIOUS
<1> HIDE DEF newest
<1>11. firsts \in SUBSET DOMAIN newest
  BY <1>7, <1>9
<1>12. M \in Seq(ResultSet)
  BY <1>2, <1>9, <1>11, KeptFacts
<1>13. DOMAIN M = 1..Cardinality(firsts) /\ Cardinality(firsts) \in Nat
  BY <1>2, <1>9, <1>11, KeptFacts
<1>14. PICK P : P = InOrder(firsts)
  OBVIOUS
<1>15. \A i \in DOMAIN M : P[i] \in firsts /\ M[i] = newest[P[i]]
  <2>1. \A k \in 1..Cardinality(firsts) : P[k] \in firsts
    BY <1>9, <1>11, <1>14, KeptFacts
  <2>2. \A k \in 1..Cardinality(firsts) : M[k] = newest[P[k]]
    BY <1>2, <1>9, <1>11, <1>14, KeptFacts
  <2> QED
    BY <1>13, <2>1, <2>2
<1>16. \A j, k \in DOMAIN M : j < k => P[j] < P[k]
  BY <1>9, <1>11, <1>13, <1>14, KeptFacts
<1>17. \A f \in firsts : \E k \in DOMAIN M : M[k] = newest[f]
  <2>1. \A f \in firsts : \E k \in 1..Cardinality(firsts) : Kept(newest, firsts)[k] = newest[f]
    BY <1>9, <1>11, KeptFacts
  <2> QED
    BY <1>2, <1>13, <2>1
<1>18. \A i \in DOMAIN M : P[i] \in DOMAIN all /\ latest(P[i]) \in DOMAIN all
                           /\ M[i] = all[latest(P[i])] /\ ResultKey(M[i]) = ResultKey(all[P[i]])
  BY <1>5, <1>7, <1>10, <1>15
<1>19. ASSUME NEW i \in DOMAIN M, NEW j \in DOMAIN M, ResultKey(M[i]) = ResultKey(M[j]) PROVE i = j
  <2>1. P[i] = P[j]
    BY <1>8, <1>15, <1>18, <1>19
  <2>2. ~(i < j) /\ ~(j < i)
    <3>1. P[i] \in Int /\ P[j] \in Int
      BY <1>4, <1>18
    <3> QED
      BY <1>16, <2>1, <3>1
  <2> QED
    BY <1>13, <2>2
<1>20. \A i \in DOMAIN M : (\E j \in DOMAIN prior : M[i] = prior[j]) \/ (\E k \in DOMAIN new : M[i] = new[k])
  <2> SUFFICES ASSUME NEW i \in DOMAIN M
               PROVE  (\E j \in DOMAIN prior : M[i] = prior[j]) \/ (\E k \in DOMAIN new : M[i] = new[k])
    OBVIOUS
  <2>1. PICK l \in 1..(p + n) : M[i] = all[l]
    BY <1>4, <1>18
  <2>2. CASE l <= p
    <3>1. l \in DOMAIN prior /\ M[i] = prior[l]
      BY <1>3, <1>4, <2>1, <2>2
    <3> QED
      BY <3>1
  <2>3. CASE ~(l <= p)
    <3>1. l - p \in DOMAIN new /\ M[i] = new[l - p]
      BY <1>3, <1>4, <2>1, <2>3
    <3> QED
      BY <3>1
  <2> QED
    BY <2>2, <2>3
<1>21. ASSUME NEW g \in DOMAIN all
       PROVE  \E i \in DOMAIN M, l \in DOMAIN all :
                M[i] = all[l] /\ same(g, l) /\ \A m \in DOMAIN all : same(g, m) => m <= l
  <2>1. PICK f \in firsts : same(g, f)
    BY <1>6
  <2>2. f \in DOMAIN all
    BY <1>7
  <2>3. PICK i \in DOMAIN M : M[i] = all[latest(f)]
    BY <1>10, <1>17, <2>2
  <2>4. latest(f) \in DOMAIN all /\ same(f, latest(f)) /\ \A m \in DOMAIN all : same(f, m) => m <= latest(f)
    BY <1>5, <2>2
  <2> QED
    BY <2>1, <2>3, <2>4
<1>22. ASSUME NEW k \in DOMAIN new
       PROVE  \E i \in DOMAIN M, l \in DOMAIN new : M[i] = new[l] /\ ResultKey(new[l]) = ResultKey(new[k])
  <2>1. p + k \in DOMAIN all /\ all[p + k] = new[k] /\ k \in Nat /\ k >= 1
    <3>1. k \in 1..n
      BY <1>3
    <3>2. p + k \in 1..(p + n) /\ ~(p + k <= p) /\ p + k - p = k
      BY <3>1
    <3> QED
      BY <1>4, <3>1, <3>2
  <2>2. PICK i \in DOMAIN M, l \in DOMAIN all :
          M[i] = all[l] /\ same(p + k, l) /\ \A m \in DOMAIN all : same(p + k, m) => m <= l
    BY <1>21, <2>1
  <2>3. p + k <= l
    BY <2>1, <2>2
  <2>4. l - p \in DOMAIN new /\ all[l] = new[l - p]
    <3>1. l \in 1..(p + n) /\ ~(l <= p)
      BY <1>4, <2>1, <2>3
    <3>2. l - p \in 1..n
      BY <3>1
    <3> QED
      BY <1>3, <1>4, <3>1, <3>2
  <2>5. M[i] = new[l - p] /\ ResultKey(new[l - p]) = ResultKey(new[k])
    BY <2>1, <2>2, <2>4
  <2> QED
    BY <2>4, <2>5
<1>23. ASSUME NEW j \in DOMAIN prior, KeyIsNew(prior[j], new)
       PROVE  \E i \in DOMAIN M : M[i] = prior[j]
  <2>1. j \in DOMAIN all /\ all[j] = prior[j]
    BY <1>3, <1>4
  <2>2. PICK i \in DOMAIN M, l \in DOMAIN all : M[i] = all[l] /\ same(j, l)
    BY <1>21, <2>1
  <2>3. l <= p
    <3> SUFFICES ASSUME ~(l <= p) PROVE FALSE
      OBVIOUS
    <3>1. l - p \in DOMAIN new /\ all[l] = new[l - p]
      <4>1. l \in 1..(p + n)
        BY <1>4
      <4>2. l - p \in 1..n
        BY <4>1
      <4> QED
        BY <1>3, <1>4, <4>1, <4>2
    <3> QED
      BY <1>23, <2>1, <2>2, <3>1 DEF KeyIsNew
  <2>4. l \in DOMAIN prior /\ all[l] = prior[l]
    BY <1>3, <1>4, <2>3
  <2>5. l = j
    BY <1>23, <2>1, <2>2, <2>4
  <2> QED
    BY <2>2, <2>4, <2>5
<1> QED
  BY <1>12, <1>19, <1>20, <1>22, <1>23

(***************************************************************************)
(* The inductive invariant                                                 *)
(***************************************************************************)

Tried == DOMAIN last
Rest == UNION {Elements(phases[n]) : n \in DOMAIN phases}
PhaseKinds == {"intra-subnet", "intra-vrf", "cross-vrf-allowlist", "cross-vrf-block"}

\* Results are told apart by their keys.
KeysAreUnique == \A i, j \in DOMAIN results : ResultKey(results[i]) = ResultKey(results[j]) => i = j

\* There is no result but of a case that was run.
ResultsAreKnown == \A i \in DOMAIN results : \E c \in Tried : ResultOf(results[i], c)

\* An attempt runs all cases; what is left for another are all or none.
UnphasedInv ==
  ~config.phased =>
    /\ phases = <<>> /\ pc # "phases"
    /\ current \in {CasesOf(config), <<>>}
    /\ Tried \in {{}, Elements(CasesOf(config))}
    /\ pc = "attempts" /\ attempt = 0 => current = CasesOf(config)
    /\ (pc = "attempts" /\ attempt > 0) \/ pc = "done" => Tried = Elements(CasesOf(config))

\* The planned cases were run or are still to come; those to come are not like those that
\* were run; only a failure leaves phases out.
PhasedInv ==
  config.phased =>
    /\ pc \in {"phases", "done"} /\ current = <<>>
    /\ PhaseList(config, PhaseKinds, phases)
    /\ Planned = Tried \cup Rest
    /\ \A c \in Tried : \A n \in DOMAIN phases : \A k \in DOMAIN phases[n] :
         ~(c.src[1] = phases[n][k].src[1] /\ c.dst[1] = phases[n][k].dst[1] /\ c.phase = phases[n][k].phase)
    /\ pc = "done" => phases = <<>> \/ Failed(results) # {}

Inv == TypeOK /\ LastIsKept /\ KeysAreUnique /\ ResultsAreKnown /\ UnphasedInv /\ PhasedInv

LEMMA ConfigFacts ==
  ASSUME config \in Configs
  PROVE  ConfigOK(config) /\ (config.phased => DOMAIN config.suite = {})
BY ConfigsAssumption

LEMMA EmptyElements ==
  Elements(<<>>) = {}
<1>1. DOMAIN <<>> = {}
  OBVIOUS
<1> QED
  BY <1>1 DEF Elements

LEMMA InitInv ==
  Init => Inv
<1> SUFFICES ASSUME Init PROVE Inv
  OBVIOUS
<1>1. config \in Configs /\ ConfigOK(config) /\ config.maxRetries \in Nat /\ config.phased \in BOOLEAN
  BY ConfigFacts DEF Init, ConfigOK
<1>2. results = <<>> /\ last = <<>> /\ attempt = 0
  BY DEF Init
<1>3. DOMAIN results = {} /\ DOMAIN last = {} /\ Tried = {}
  <2>1. DOMAIN <<>> = {}
    OBVIOUS
  <2> QED
    BY <1>2, <2>1 DEF Tried
<1>4. CasesOf(config) \in Seq(CaseSet)
  BY <1>1, CasesOfFacts
<1>5. PhaseList(config, PhaseKinds, PhasesOf(config)) /\ PhasesOf(config) \in Seq(Seq(CaseSet))
  BY <1>1, PhasesOfFacts DEF PhaseKinds, PhaseList
<1>6. TypeOK
  <2>1. pc \in {"attempts", "phases", "done", "refused"}
    BY DEF Init
  <2>2. attempt \in 0..config.maxRetries
    BY <1>1, <1>2
  <2>3. <<>> \in Seq(CaseSet) /\ <<>> \in Seq(Seq(CaseSet)) /\ <<>> \in Seq(ResultSet)
    OBVIOUS
  <2>4. current \in Seq(CaseSet)
    BY <1>4, <2>3 DEF Init
  <2>5. phases \in Seq(Seq(CaseSet))
    BY <1>5, <2>3 DEF Init
  <2> QED
    BY <1>1, <1>2, <1>3, <2>1, <2>2, <2>3, <2>4, <2>5 DEF TypeOK
<1>7. LastIsKept /\ KeysAreUnique /\ ResultsAreKnown
  BY <1>3 DEF LastIsKept, KeysAreUnique, ResultsAreKnown
<1>8. UnphasedInv
  BY <1>2, <1>3 DEF UnphasedInv, Init
<1>9. PhasedInv
  <2> SUFFICES ASSUME config.phased PROVE PhasedInv
    BY DEF PhasedInv
  <2>1. pc = "phases" /\ current = <<>> /\ phases = PhasesOf(config)
    BY DEF Init
  <2>2. Planned = Tried \cup Rest
    BY <1>3, <2>1 DEF Planned, Rest
  <2> QED
    BY <1>3, <1>5, <2>1, <2>2 DEF PhasedInv
<1> QED
  BY <1>6, <1>7, <1>8, <1>9 DEF Inv

LEMMA OneOfResults ==
  ASSUME NEW r \in ResultSet, NEW s \in ResultSet, NEW c, ResultKey(r) = ResultKey(s), ResultOf(r, c)
  PROVE  ResultOf(s, c)
<1>1. /\ r.src = s.src /\ r.dst = s.dst /\ r.srcVm = s.srcVm /\ r.dstVm = s.dstVm /\ r.phase = s.phase
      /\ r.probe = s.probe /\ r.expected = s.expected
  BY DEF ResultKey
<1> QED
  BY <1>1 DEF ResultOf

\* What it does to results and to the history to run cases that are all new, or of which all
\* that was run is among them.
LEMMA TakeFacts ==
  ASSUME config \in Configs, results \in Seq(ResultSet), LastIsKept, KeysAreUnique, ResultsAreKnown,
         \A c \in DOMAIN last : last[c] \in {"pass", "fail"},
         NEW cases \in Seq(CaseSet), \A k \in DOMAIN cases : CaseOK(config, cases[k]),
         \A c \in Tried : \/ c \in Elements(cases)
                          \/ \A k \in DOMAIN cases : ~(/\ c.src[1] = cases[k].src[1] /\ c.dst[1] = cases[k].dst[1]
                                                       /\ c.phase = cases[k].phase),
         NEW new \in NewResults(cases), Take(cases, new), UNCHANGED config
  PROVE  /\ results' \in Seq(ResultSet) /\ LastIsKept' /\ KeysAreUnique' /\ ResultsAreKnown'
         /\ DOMAIN last' = DOMAIN last \cup Elements(cases)
         /\ \A c \in DOMAIN last' : last'[c] \in {"pass", "fail"}
         /\ Failed(new) # {} => Failed(results') # {}
<1>1. config.mode \in Modes
  BY ConfigFacts DEF ConfigOK
<1>2. PICK found \in Findings(cases, config.mode) : new = RunChecks(cases, config.mode, Subnets(config), found)
  BY DEF NewResults
<1>3. /\ new \in Seq(ResultSet) /\ DOMAIN new = DOMAIN cases
      /\ \A k \in DOMAIN cases : ResultOf(new[k], cases[k])
      /\ \A j, k \in DOMAIN cases : ResultKey(new[j]) = ResultKey(new[k]) => new[j].status = new[k].status
  <2>1. PICK mode \in Modes : mode = config.mode
    BY <1>1
  <2>2. found \in Findings(cases, mode) /\ new = RunChecks(cases, mode, Subnets(config), found)
    BY <1>2, <2>1
  <2>6. \A j, k \in DOMAIN cases : cases[j].phase = cases[k].phase => cases[j].probe = cases[k].probe
    BY DEF CaseOK
  <2>3. new \in Seq(ResultSet) /\ DOMAIN new = DOMAIN cases
    BY <2>1, <2>2, <2>6, RunChecksFacts
  <2>4. \A k \in DOMAIN cases : ResultOf(new[k], cases[k])
    BY <2>1, <2>2, <2>6, RunChecksFacts
  <2>5. \A j, k \in DOMAIN cases : ResultKey(new[j]) = ResultKey(new[k]) => new[j].status = new[k].status
    BY <2>1, <2>2, <2>6, RunChecksFacts
  <2> QED
    BY <2>3, <2>4, <2>5
<1>4. \A k \in DOMAIN new : new[k] \in ResultSet
  BY <1>3
<1>5. \A k \in DOMAIN new : new[k].status \in {"pass", "fail"}
  BY <1>4 DEF ResultSet
<1>6. PICK M : M = results' /\ M = MergeRetryResults(results, new)
  BY DEF Take
<1>7. /\ M \in Seq(ResultSet)
      /\ \A i, j \in DOMAIN M : ResultKey(M[i]) = ResultKey(M[j]) => i = j
      /\ \A i \in DOMAIN M : (\E j \in DOMAIN results : M[i] = results[j]) \/ (\E k \in DOMAIN new : M[i] = new[k])
      /\ \A k \in DOMAIN new : \E i \in DOMAIN M, l \in DOMAIN new :
           M[i] = new[l] /\ ResultKey(new[l]) = ResultKey(new[k])
      /\ \A j \in DOMAIN results : KeyIsNew(results[j], new) => \E i \in DOMAIN M : M[i] = results[j]
  <2>6. \A i, j \in DOMAIN results : ResultKey(results[i]) = ResultKey(results[j]) => i = j
    BY DEF KeysAreUnique
  <2>1. M \in Seq(ResultSet)
    BY <1>3, <1>6, <2>6, MergeFacts
  <2>2. \A i, j \in DOMAIN M : ResultKey(M[i]) = ResultKey(M[j]) => i = j
    BY <1>3, <1>6, <2>6, MergeFacts
  <2>3. \A i \in DOMAIN M : (\E j \in DOMAIN results : M[i] = results[j]) \/ (\E k \in DOMAIN new : M[i] = new[k])
    BY <1>3, <1>6, <2>6, MergeFacts
  <2>4. \A k \in DOMAIN new : \E i \in DOMAIN M, l \in DOMAIN new :
          M[i] = new[l] /\ ResultKey(new[l]) = ResultKey(new[k])
    BY <1>3, <1>6, <2>6, MergeFacts
  <2>5. \A j \in DOMAIN results : KeyIsNew(results[j], new) => \E i \in DOMAIN M : M[i] = results[j]
    BY <1>3, <1>6, <2>6, MergeFacts
  <2> QED
    BY <2>1, <2>2, <2>3, <2>4, <2>5
<1>8. last' = Statuses(cases, new)
  BY DEF Take
<1>9. /\ DOMAIN last' = DOMAIN last \cup Elements(cases)
      /\ \A c \in DOMAIN last' : c \notin Elements(cases) => last'[c] = last[c]
  BY <1>8 DEF Statuses
<1>10. \A c \in Elements(cases) : \E k \in DOMAIN cases : cases[k] = c /\ last'[c] = new[k].status
  <2> SUFFICES ASSUME NEW c \in Elements(cases)
               PROVE  \E k \in DOMAIN cases : cases[k] = c /\ last'[c] = new[k].status
    OBVIOUS
  <2>1. PICK k : k = CHOOSE n \in DOMAIN cases : cases[n] = c
    OBVIOUS
  <2>2. \E n \in DOMAIN cases : cases[n] = c
    BY DEF Elements
  <2>3. k \in DOMAIN cases /\ cases[k] = c
    BY <2>1, <2>2
  <2>4. last'[c] = new[k].status
    BY <1>8, <2>1 DEF Statuses
  <2> QED
    BY <2>3, <2>4
<1>11. ASSUME NEW r, NEW c PROVE ResultOf(r, c)' <=> ResultOf(r, c)
  BY DEF ResultOf
<1>12. ASSUME NEW k \in DOMAIN cases
       PROVE  \E i \in DOMAIN M : ResultOf(M[i], cases[k]) /\ M[i].status = new[k].status
  <2>1. PICK i \in DOMAIN M, l \in DOMAIN new : M[i] = new[l] /\ ResultKey(new[l]) = ResultKey(new[k])
    BY <1>3, <1>7
  <2>2. new[l].status = new[k].status
    BY <1>3, <2>1
  <2>3. ResultOf(new[k], cases[k])
    BY <1>3
  <2>4. ResultOf(new[l], cases[k])
    BY <1>3, <1>4, <2>1, <2>3, OneOfResults
  <2> QED
    BY <2>1, <2>2, <2>4
<1>13. \A c \in DOMAIN last' : \E i \in DOMAIN M : ResultOf(M[i], c) /\ M[i].status = last'[c]
  <2> SUFFICES ASSUME NEW c \in DOMAIN last' PROVE \E i \in DOMAIN M : ResultOf(M[i], c) /\ M[i].status = last'[c]
    OBVIOUS
  <2>1. CASE c \in Elements(cases)
    <3>1. PICK k \in DOMAIN cases : cases[k] = c /\ last'[c] = new[k].status
      BY <1>10, <2>1
    <3> QED
      BY <1>12, <3>1
  <2>2. CASE c \notin Elements(cases)
    <3>1. c \in DOMAIN last /\ c \in Tried /\ last'[c] = last[c]
      BY <1>9, <2>2 DEF Tried
    <3>2. PICK j \in DOMAIN results : ResultOf(results[j], c) /\ results[j].status = last[c]
      BY <3>1 DEF LastIsKept
    <3>3. ASSUME NEW k \in DOMAIN new, ResultKey(new[k]) = ResultKey(results[j]) PROVE FALSE
      <4>1. new[k].src = results[j].src /\ new[k].dst = results[j].dst /\ new[k].phase = results[j].phase
        BY <3>3 DEF ResultKey
      <4>2. ResultOf(new[k], cases[k])
        BY <1>3
      <4>3. /\ new[k].src[1] = cases[k].src[1] /\ new[k].dst[1] = cases[k].dst[1] /\ new[k].phase = cases[k].phase
        BY <4>2 DEF ResultOf
      <4>4. /\ results[j].src[1] = c.src[1] /\ results[j].dst[1] = c.dst[1] /\ results[j].phase = c.phase
        BY <3>2 DEF ResultOf
      <4>5. \A m \in DOMAIN cases : ~(/\ c.src[1] = cases[m].src[1] /\ c.dst[1] = cases[m].dst[1]
                                       /\ c.phase = cases[m].phase)
        BY <2>2, <3>1
      <4> QED
        BY <1>3, <4>1, <4>3, <4>4, <4>5
    <3>4. PICK i \in DOMAIN M : M[i] = results[j]
      BY <1>7, <3>3 DEF KeyIsNew
    <3> QED
      BY <3>1, <3>2, <3>4
  <2> QED
    BY <2>1, <2>2
<1>14. LastIsKept'
  BY <1>6, <1>11, <1>13 DEF LastIsKept
<1>15. KeysAreUnique'
  BY <1>6, <1>7 DEF KeysAreUnique
<1>16. \A i \in DOMAIN M : \E c \in DOMAIN last' : ResultOf(M[i], c)
  <2> SUFFICES ASSUME NEW i \in DOMAIN M PROVE \E c \in DOMAIN last' : ResultOf(M[i], c)
    OBVIOUS
  <2>1. CASE \E j \in DOMAIN results : M[i] = results[j]
    <3>1. PICK j \in DOMAIN results : M[i] = results[j]
      BY <2>1
    <3>2. PICK c \in Tried : ResultOf(results[j], c)
      BY DEF ResultsAreKnown
    <3> QED
      BY <1>9, <3>1, <3>2 DEF Tried
  <2>2. CASE \E k \in DOMAIN new : M[i] = new[k]
    <3>1. PICK k \in DOMAIN cases : M[i] = new[k]
      BY <1>3, <2>2
    <3>2. ResultOf(M[i], cases[k]) /\ cases[k] \in Elements(cases)
      BY <1>3, <3>1 DEF Elements
    <3> QED
      BY <1>9, <3>2
  <2> QED
    BY <1>7, <2>1, <2>2
<1>17. ResultsAreKnown'
  BY <1>6, <1>11, <1>16 DEF ResultsAreKnown, Tried
<1>18. \A c \in DOMAIN last' : last'[c] \in {"pass", "fail"}
  BY <1>3, <1>5, <1>9, <1>10
<1>19. Failed(new) # {} => Failed(results') # {}
  <2> SUFFICES ASSUME NEW k \in Failed(new) PROVE Failed(M) # {}
    BY <1>6
  <2>1. k \in DOMAIN cases /\ new[k].status # "pass"
    BY <1>3 DEF Failed
  <2>2. PICK i \in DOMAIN M : M[i].status = new[k].status
    BY <1>12, <2>1
  <2> QED
    BY <2>1, <2>2 DEF Failed
<1> QED
  BY <1>6, <1>7, <1>9, <1>14, <1>15, <1>17, <1>18, <1>19

LEMMA CasesOfRun ==
  ASSUME config \in Configs
  PROVE  CasesOf(config) \in Seq(CaseSet) /\ \A k \in DOMAIN CasesOf(config) : CaseOK(config, CasesOf(config)[k])
<1>1. PICK c : c = config
  OBVIOUS
<1>2. ConfigOK(c)
  BY <1>1, ConfigFacts
<1>3. CasesOf(c) \in Seq(CaseSet) /\ \A k \in DOMAIN CasesOf(c) : CaseOK(c, CasesOf(c)[k])
  BY <1>2, CasesOfFacts
<1> QED
  BY <1>1, <1>3

\* Another attempt has all cases, or none: a result of a check never has the reason of a case.
LEMMA SelectFacts ==
  ASSUME NEW cases \in Seq(CaseSet), NEW found \in Seq(ResultSet), NEW mode \in {"all", "failed-only"}
  PROVE  SelectRetryCases(cases, found, mode) \in {cases, <<>>}
<1>1. CASE mode = "all"
  BY <1>1 DEF SelectRetryCases
<1>2. CASE mode = "failed-only"
  <2>1. PICK S : S = {k \in DOMAIN cases : \E i \in Failed(found) : RetryKey(cases[k]) = RetryKey(found[i])}
    OBVIOUS
  <2>2. SelectRetryCases(cases, found, mode) = Kept(cases, S)
    BY <1>2, <2>1 DEF SelectRetryCases
  <2>3. S = {}
    <3> SUFFICES ASSUME NEW k \in DOMAIN cases, NEW i \in Failed(found), RetryKey(cases[k]) = RetryKey(found[i])
                 PROVE  FALSE
      BY <2>1
    <3>1. cases[k] \in CaseSet /\ found[i] \in ResultSet
      BY DEF Failed
    <3>2. cases[k].reason = found[i].reason
      BY DEF RetryKey
    <3>3. /\ cases[k].reason \in {"same-vrf", "cross-vrf", "custom-step1", "custom-step2",
                                  "intra-subnet-direct", "cross-vrf-allowlist", "cross-vrf-block"}
          /\ found[i].reason \in Ways
      BY <3>1 DEF CaseSet, ResultSet
    <3> QED
      BY <3>2, <3>3 DEF Ways
  <2>4. Cardinality(S) = 0 /\ S \in SUBSET DOMAIN cases
    BY <2>3, FS_EmptySet
  <2>5. Kept(cases, S) \in Seq(CaseSet) /\ DOMAIN Kept(cases, S) = 1..Cardinality(S)
    BY <2>4, KeptFacts
  <2>6. Kept(cases, S) = <<>>
    BY <2>4, <2>5
  <2> QED
    BY <2>2, <2>6
<1> QED
  BY <1>1, <1>2

LEMMA AttemptInv ==
  Inv /\ Attempt => Inv'
<1> SUFFICES ASSUME Inv, Attempt PROVE Inv'
  OBVIOUS
<1>1. TypeOK /\ LastIsKept /\ KeysAreUnique /\ ResultsAreKnown /\ UnphasedInv /\ PhasedInv
  BY DEF Inv
<1>2. /\ config \in Configs /\ results \in Seq(ResultSet) /\ attempt \in 0..config.maxRetries
      /\ DOMAIN last \subseteq CaseSet /\ \A c \in DOMAIN last : last[c] \in {"pass", "fail"}
  BY <1>1 DEF TypeOK
<1>3. config.maxRetries \in Nat /\ config.retry \in {"all", "failed-only"}
  BY <1>2, ConfigFacts DEF ConfigOK
<1>4. pc = "attempts" /\ current # <<>> /\ UNCHANGED <<config, phases>>
  BY DEF Attempt
<1>5. ~config.phased
  BY <1>1, <1>4 DEF PhasedInv
<1>6. /\ phases = <<>> /\ current = CasesOf(config)
      /\ Tried \in {{}, Elements(CasesOf(config))}
  BY <1>1, <1>4, <1>5 DEF UnphasedInv
<1>7. PICK cases \in Seq(CaseSet) : cases = CasesOf(config) /\ \A k \in DOMAIN cases : CaseOK(config, cases[k])
  BY <1>2, CasesOfRun
<1>8. PICK new \in NewResults(cases) : Take(cases, new)
  BY <1>6, <1>7 DEF Attempt
<1>9. \A c \in Tried : c \in Elements(cases)
  BY <1>6, <1>7
<1>10. /\ results' \in Seq(ResultSet) /\ LastIsKept' /\ KeysAreUnique' /\ ResultsAreKnown'
       /\ DOMAIN last' = DOMAIN last \cup Elements(cases)
       /\ \A c \in DOMAIN last' : last'[c] \in {"pass", "fail"}
  BY <1>1, <1>2, <1>4, <1>7, <1>8, <1>9, TakeFacts
<1>11. Tried' = Elements(cases)
  BY <1>6, <1>7, <1>10 DEF Tried
<1>12. \/ pc' = "done" /\ UNCHANGED <<attempt, current>>
       \/ /\ ~LastAttempt(attempt) /\ attempt' = attempt + 1 /\ pc' = pc
          /\ current' = SelectRetryCases(CasesOf(config), results', config.retry)
  BY DEF Attempt
<1>13. current' \in {cases, <<>>} /\ attempt' \in 0..config.maxRetries /\ pc' \in {"attempts", "done"}
  <2>1. CASE pc' = "done" /\ UNCHANGED <<attempt, current>>
    BY <1>2, <1>6, <1>7, <2>1
  <2>2. CASE /\ ~LastAttempt(attempt) /\ attempt' = attempt + 1 /\ pc' = pc
             /\ current' = SelectRetryCases(CasesOf(config), results', config.retry)
    <3>1. PICK found \in Seq(ResultSet) : found = results'
      BY <1>10
    <3>2. PICK mode \in {"all", "failed-only"} : mode = config.retry
      BY <1>3
    <3>3. current' = SelectRetryCases(cases, found, mode)
      BY <1>7, <2>2, <3>1, <3>2
    <3>4. current' \in {cases, <<>>}
      BY <3>3, SelectFacts
    <3>5. attempt' \in 0..config.maxRetries
      BY <1>2, <1>3, <2>2 DEF LastAttempt
    <3> QED
      BY <1>4, <2>2, <3>4, <3>5
  <2> QED
    BY <1>12, <2>1, <2>2
<1>14. TypeOK'
  <2>1. <<>> \in Seq(CaseSet) /\ <<>> \in Seq(Seq(CaseSet))
    OBVIOUS
  <2>2. current' \in Seq(CaseSet)
    BY <1>13, <2>1
  <2>3. Elements(cases) \in SUBSET CaseSet
    BY DEF Elements
  <2>4. DOMAIN last' \subseteq CaseSet
    BY <1>2, <1>10, <2>3
  <2>5. phases' \in Seq(Seq(CaseSet))
    BY <1>4, <1>6, <2>1
  <2>6. pc' \in {"attempts", "phases", "done", "refused"}
    BY <1>13
  <2> QED
    BY <1>2, <1>4, <1>10, <1>13, <2>2, <2>4, <2>5, <2>6 DEF TypeOK
<1>15. UnphasedInv'
  <2>1. ~(pc' = "attempts" /\ attempt' = 0)
    <3>1. pc' = "attempts" => attempt' = attempt + 1
      BY <1>12
    <3>2. attempt + 1 # 0
      BY <1>2, <1>3
    <3> QED
      BY <3>1, <3>2
  <2>2. phases' = <<>> /\ pc' # "phases"
    BY <1>4, <1>6, <1>13
  <2>3. current' \in {CasesOf(config'), <<>>} /\ Tried' = Elements(CasesOf(config'))
    BY <1>4, <1>7, <1>11, <1>13
  <2> QED
    BY <2>1, <2>2, <2>3 DEF UnphasedInv
<1>16. PhasedInv'
  BY <1>4, <1>5 DEF PhasedInv
<1> QED
  BY <1>10, <1>14, <1>15, <1>16 DEF Inv

LEMMA ExhaustedInv ==
  Inv /\ Exhausted => Inv'
<1> SUFFICES ASSUME Inv, Exhausted PROVE Inv'
  OBVIOUS
<1>1. TypeOK /\ LastIsKept /\ KeysAreUnique /\ ResultsAreKnown /\ UnphasedInv /\ PhasedInv
  BY DEF Inv
<1>2. /\ pc = "attempts" /\ current = <<>> /\ pc' = "done"
      /\ config' = config /\ attempt' = attempt /\ current' = current /\ phases' = phases
      /\ results' = results /\ last' = last
  BY DEF Exhausted
<1>3. config \in Configs /\ attempt \in 0..config.maxRetries /\ config.maxRetries \in Nat
  BY <1>1, ConfigFacts DEF TypeOK, ConfigOK
<1>4. ~config.phased
  BY <1>1, <1>2 DEF PhasedInv
<1>5. /\ phases = <<>> /\ current \in {CasesOf(config), <<>>}
      /\ Tried \in {{}, Elements(CasesOf(config))}
      /\ attempt = 0 => current = CasesOf(config)
      /\ attempt > 0 => Tried = Elements(CasesOf(config))
  BY <1>1, <1>2, <1>4 DEF UnphasedInv
<1>6. Tried = Elements(CasesOf(config))
  <2>1. CASE attempt = 0
    BY <1>2, <1>5, <2>1, EmptyElements
  <2>2. CASE attempt > 0
    BY <1>5, <2>2
  <2> QED
    BY <1>3, <2>1, <2>2
<1>7. TypeOK'
  BY <1>1, <1>2 DEF TypeOK
<1>8. LastIsKept' /\ KeysAreUnique' /\ ResultsAreKnown'
  BY <1>1, <1>2 DEF LastIsKept, KeysAreUnique, ResultsAreKnown, ResultOf, Tried
<1>9. UnphasedInv'
  BY <1>2, <1>5, <1>6 DEF UnphasedInv, Tried
<1>10. PhasedInv'
  BY <1>2, <1>4 DEF PhasedInv
<1> QED
  BY <1>7, <1>8, <1>9, <1>10 DEF Inv

LEMMA PhasesEndInv ==
  Inv /\ PhasesEnd => Inv'
<1> SUFFICES ASSUME Inv, PhasesEnd PROVE Inv'
  OBVIOUS
<1>1. TypeOK /\ LastIsKept /\ KeysAreUnique /\ ResultsAreKnown /\ UnphasedInv /\ PhasedInv
  BY DEF Inv
<1>2. /\ pc = "phases" /\ phases = <<>> /\ pc' = "done"
      /\ config' = config /\ attempt' = attempt /\ current' = current /\ phases' = phases
      /\ results' = results /\ last' = last
  BY DEF PhasesEnd
<1>3. config.phased
  BY <1>1, <1>2 DEF UnphasedInv
<1>4. TypeOK'
  BY <1>1, <1>2 DEF TypeOK
<1>5. LastIsKept' /\ KeysAreUnique' /\ ResultsAreKnown'
  BY <1>1, <1>2 DEF LastIsKept, KeysAreUnique, ResultsAreKnown, ResultOf, Tried
<1>6. PhasedInv'
  BY <1>1, <1>2, <1>3 DEF PhasedInv, Tried, Rest, Planned, PhaseList, PhaseOK
<1>7. UnphasedInv'
  BY <1>2, <1>3 DEF UnphasedInv
<1> QED
  BY <1>4, <1>5, <1>6, <1>7 DEF Inv

LEMMA PhaseInv ==
  Inv /\ Phase => Inv'
<1> SUFFICES ASSUME Inv, Phase PROVE Inv'
  OBVIOUS
<1>1. TypeOK /\ LastIsKept /\ KeysAreUnique /\ ResultsAreKnown /\ UnphasedInv /\ PhasedInv
  BY DEF Inv
<1>2. /\ config \in Configs /\ results \in Seq(ResultSet) /\ attempt \in 0..config.maxRetries
      /\ DOMAIN last \subseteq CaseSet /\ \A c \in DOMAIN last : last[c] \in {"pass", "fail"}
      /\ phases \in Seq(Seq(CaseSet))
  BY <1>1 DEF TypeOK
<1>3. pc = "phases" /\ phases # <<>> /\ phases' = Tail(phases) /\ UNCHANGED <<config, attempt, current>>
  BY DEF Phase
<1>4. config.phased
  BY <1>1, <1>3 DEF UnphasedInv
<1>5. /\ current = <<>> /\ PhaseList(config, PhaseKinds, phases) /\ Planned = Tried \cup Rest
      /\ \A c \in Tried : \A n \in DOMAIN phases : \A k \in DOMAIN phases[n] :
           ~(c.src[1] = phases[n][k].src[1] /\ c.dst[1] = phases[n][k].dst[1] /\ c.phase = phases[n][k].phase)
  BY <1>1, <1>4 DEF PhasedInv
<1>6. PICK len \in Nat : DOMAIN phases = 1..(len + 1) /\ Len(phases) = len + 1
  <2>1. Len(phases) \in Nat /\ DOMAIN phases = 1..Len(phases) /\ Len(phases) # 0
    BY <1>2, <1>3
  <2>2. Len(phases) - 1 \in Nat /\ Len(phases) = Len(phases) - 1 + 1
    BY <2>1
  <2> QED
    BY <2>1, <2>2
<1>7. /\ phases' \in Seq(Seq(CaseSet)) /\ DOMAIN phases' = 1..len
      /\ \A n \in 1..len : phases'[n] = phases[n + 1] /\ n + 1 \in DOMAIN phases /\ n + 1 # 1
  <2>1. PICK U, seq : U = Seq(CaseSet) /\ seq = phases
    OBVIOUS
  <2>2. seq \in Seq(U) /\ seq # <<>> /\ Len(seq) = len + 1
    BY <1>2, <1>3, <1>6, <2>1
  <2>3. /\ Tail(seq) \in Seq(U) /\ DOMAIN Tail(seq) = 1..(Len(seq) - 1)
        /\ \A n \in 1..(Len(seq) - 1) : Tail(seq)[n] = seq[n + 1]
    BY <2>2
  <2>4. Len(seq) - 1 = len
    BY <2>2
  <2>5. \A n \in 1..len : n + 1 \in 1..(len + 1) /\ n + 1 # 1
    OBVIOUS
  <2> QED
    BY <1>3, <1>6, <2>1, <2>3, <2>4, <2>5
<1>8. PICK cases : cases = Head(phases)
  OBVIOUS
<1>9. 1 \in DOMAIN phases /\ cases = phases[1]
  BY <1>2, <1>3, <1>6, <1>8
<1>10. cases \in Seq(CaseSet) /\ \A k \in DOMAIN cases : CaseOK(config, cases[k])
  BY <1>5, <1>9 DEF PhaseList, PhaseOK
<1>11. PICK new \in NewResults(cases) :
         Take(cases, new) /\ pc' = IF Failed(new) # {} THEN "done" ELSE "phases"
  BY <1>8 DEF Phase
<1>12. \A c \in Tried : \A k \in DOMAIN cases : ~(/\ c.src[1] = cases[k].src[1] /\ c.dst[1] = cases[k].dst[1]
                                                  /\ c.phase = cases[k].phase)
  BY <1>5, <1>9
<1>13. /\ results' \in Seq(ResultSet) /\ LastIsKept' /\ KeysAreUnique' /\ ResultsAreKnown'
       /\ DOMAIN last' = DOMAIN last \cup Elements(cases)
       /\ \A c \in DOMAIN last' : last'[c] \in {"pass", "fail"}
       /\ Failed(new) # {} => Failed(results') # {}
  BY <1>1, <1>2, <1>3, <1>10, <1>11, <1>12, TakeFacts
<1>14. TypeOK'
  <2>1. <<>> \in Seq(CaseSet)
    OBVIOUS
  <2>2. Elements(cases) \in SUBSET CaseSet
    BY <1>10 DEF Elements
  <2>3. DOMAIN last' \subseteq CaseSet
    BY <1>2, <1>13, <2>2
  <2>4. pc' \in {"attempts", "phases", "done", "refused"}
    BY <1>11
  <2> QED
    BY <1>2, <1>3, <1>5, <1>7, <1>13, <2>1, <2>3, <2>4 DEF TypeOK
<1>15. PhaseList(config, PhaseKinds, phases')
  <2>1. \A n \in DOMAIN phases' : PhaseOK(config, phases'[n]) /\ phases'[n][1].phase.kind \in PhaseKinds
    BY <1>5, <1>7 DEF PhaseList
  <2>2. ASSUME NEW m \in DOMAIN phases', NEW n \in DOMAIN phases', m # n PROVE Separate(phases'[m], phases'[n])
    <3>1. m + 1 # n + 1
      BY <1>7, <2>2
    <3>2. /\ m + 1 \in DOMAIN phases /\ n + 1 \in DOMAIN phases
          /\ phases'[m] = phases[m + 1] /\ phases'[n] = phases[n + 1]
      BY <1>7
    <3> QED
      BY <1>5, <3>1, <3>2 DEF PhaseList
  <2> QED
    BY <1>7, <2>1, <2>2 DEF PhaseList
<1>16. Planned' = Tried' \cup Rest'
  <2>1. Planned' = Planned
    BY <1>3 DEF Planned
  <2>2. Tried' = Tried \cup Elements(cases)
    BY <1>13 DEF Tried
  <2>3. Rest = Elements(cases) \cup Rest'
    <3>1. Rest \subseteq Elements(cases) \cup Rest'
      <4> SUFFICES ASSUME NEW n \in DOMAIN phases, NEW x \in Elements(phases[n])
                   PROVE  x \in Elements(cases) \cup Rest'
        BY DEF Rest
      <4>1. CASE n = 1
        BY <1>9, <4>1
      <4>2. CASE n # 1
        <5>1. n - 1 \in 1..len /\ n - 1 + 1 = n
          BY <1>6, <4>2
        <5>2. phases'[n - 1] = phases[n] /\ n - 1 \in DOMAIN phases'
          BY <1>7, <5>1
        <5> QED
          BY <5>2 DEF Rest
      <4> QED
        BY <4>1, <4>2
    <3>2. Elements(cases) \subseteq Rest
      BY <1>9 DEF Rest
    <3>3. Rest' \subseteq Rest
      BY <1>7 DEF Rest
    <3> QED
      BY <3>1, <3>2, <3>3
  <2> QED
    BY <1>5, <2>1, <2>2, <2>3
<1>17. ASSUME NEW c \in Tried', NEW n \in DOMAIN phases', NEW k \in DOMAIN phases'[n]
       PROVE  ~(/\ c.src[1] = phases'[n][k].src[1] /\ c.dst[1] = phases'[n][k].dst[1]
                /\ c.phase = phases'[n][k].phase)
  <2>1. n + 1 \in DOMAIN phases /\ n + 1 # 1 /\ phases'[n] = phases[n + 1]
    BY <1>7
  <2>2. c \in Tried \/ c \in Elements(cases)
    BY <1>13 DEF Tried
  <2>3. CASE c \in Tried
    BY <1>5, <2>1, <2>3
  <2>4. CASE c \in Elements(cases)
    <3>1. PICK j \in DOMAIN cases : c = cases[j]
      BY <2>4 DEF Elements
    <3>2. Separate(phases[1], phases[n + 1])
      BY <1>5, <1>9, <2>1 DEF PhaseList
    <3> QED
      BY <1>9, <2>1, <3>1, <3>2 DEF Separate
  <2> QED
    BY <2>2, <2>3, <2>4
<1>18. PhasedInv'
  <2>1. pc' \in {"phases", "done"} /\ current' = <<>>
    BY <1>3, <1>5, <1>11
  <2>2. PhaseList(config, PhaseKinds, phases)'
    BY <1>3, <1>15 DEF PhaseList, PhaseOK
  <2>3. pc' = "done" => phases' = <<>> \/ Failed(results') # {}
    BY <1>11, <1>13
  <2> QED
    BY <1>16, <1>17, <2>1, <2>2, <2>3 DEF PhasedInv
<1>19. UnphasedInv'
  BY <1>3, <1>4 DEF UnphasedInv
<1> QED
  BY <1>13, <1>14, <1>18, <1>19 DEF Inv

LEMMA StutterInv ==
  Inv /\ UNCHANGED vars => Inv'
<1> SUFFICES ASSUME Inv, UNCHANGED vars PROVE Inv'
  OBVIOUS
<1>1. /\ config' = config /\ pc' = pc /\ attempt' = attempt /\ current' = current /\ phases' = phases
      /\ results' = results /\ last' = last
  BY DEF vars
<1>2. TypeOK' /\ LastIsKept' /\ KeysAreUnique' /\ ResultsAreKnown'
  BY <1>1 DEF Inv, TypeOK, LastIsKept, KeysAreUnique, ResultsAreKnown, ResultOf, Tried
<1>3. UnphasedInv'
  BY <1>1 DEF Inv, UnphasedInv, Tried
<1>4. Planned' = Planned /\ Tried' = Tried /\ Rest' = Rest
  BY <1>1 DEF Planned, Tried, Rest
<1>5. PhaseList(config, PhaseKinds, phases)' <=> PhaseList(config, PhaseKinds, phases)
  BY <1>1 DEF PhaseList, PhaseOK
<1>6. PhasedInv'
  BY <1>1, <1>4, <1>5 DEF Inv, PhasedInv
<1> QED
  BY <1>2, <1>3, <1>6 DEF Inv

\* Every state of a run satisfies the inductive invariant.
THEOREM Invariance ==
  Spec => []Inv
<1>1. Inv /\ [Next]_vars => Inv'
  BY AttemptInv, ExhaustedInv, PhaseInv, PhasesEndInv, StutterInv DEF Next
<1> QED
  BY <1>1, InitInv, PTL DEF Spec

(***************************************************************************)
(* The theorems                                                            *)
(***************************************************************************)

\* The types of a run's state hold, whatever the rows, rules, suite and mode are.
THEOREM Types ==
  Spec => []TypeOK
<1>1. Inv => TypeOK
  BY DEF Inv
<1> QED
  BY <1>1, Invariance, PTL

\* Every case that was run has a result, as it was the last time the case was run, however
\* often results were merged.
THEOREM LastKept ==
  Spec => []LastIsKept
<1>1. Inv => LastIsKept
  BY DEF Inv
<1> QED
  BY <1>1, Invariance, PTL

LEMMA FitOfInv ==
  Inv => PhasesFit
<1> SUFFICES ASSUME Inv PROVE PhasesFit
  OBVIOUS
<1>1. CASE config.phased
  <2>1. PhaseList(config, PhaseKinds, phases)
    BY <1>1 DEF Inv, PhasedInv
  <2>2. ASSUME NEW n \in DOMAIN phases
        PROVE  Cardinality(PhaseSubnets(phases[n])) * VmsOf(phases[n]) <= Larger(VmsOf(phases[n]), config.maxVms)
    BY <2>1 DEF PhaseList, PhaseOK, VmsOf
  <2>3. ASSUME NEW n \in DOMAIN phases, NEW m \in DOMAIN phases, m # n
        PROVE  Elements(phases[m]) \cap Elements(phases[n]) = {}
    <3>1. Separate(phases[m], phases[n])
      BY <2>1, <2>3 DEF PhaseList
    <3> QED
      BY <3>1 DEF Separate, Elements
  <2> QED
    BY <2>2, <2>3 DEF PhasesFit
<1>2. CASE ~config.phased
  <2>1. phases = <<>>
    BY <1>2 DEF Inv, UnphasedInv
  <2>2. DOMAIN phases = {}
    BY <2>1
  <2> QED
    BY <2>2 DEF PhasesFit
<1> QED
  BY <1>1, <1>2

\* The phases to come need no more VMs, for one row of each subnet, than are allowed, unless
\* one subnet does; and no case is in two of them.
THEOREM Fit ==
  Spec => []PhasesFit
BY FitOfInv, Invariance, PTL

\* What completing and publishing a result changes.
Reports(rules, cases, r, o) ==
  /\ o.phase = r.phase
  /\ o.status = IF r.phase \in UdpSteps(rules) THEN "fail" ELSE r.status
  /\ {"src", "dst", "phase"} \subseteq DOMAIN o
  /\ r.src[2] # 0 /\ r.dst[2] # 0 => o.src = r.src /\ o.dst = r.dst
  /\ r.src[2] = 0 /\ r.dst[2] = 0 /\ (\E k \in DOMAIN cases : CaseKey(cases[k]) = CaseKey(r)) =>
       \E k \in DOMAIN cases : /\ CaseKey(cases[k]) = CaseKey(r)
                               /\ o.src = <<r.src[1], cases[k].src[2]>>
                               /\ o.dst = <<r.dst[1], cases[k].dst[2]>>

LEMMA PublishedFacts ==
  ASSUME NEW rules, NEW cases \in Seq(CaseSet), NEW r \in ResultSet
  PROVE  Reports(rules, cases, r, Published(rules, WithClusters(cases, r)))
<1>17. PICK o : o = Published(rules, WithClusters(cases, r))
  OBVIOUS
<1>1. PICK same : same = {k \in DOMAIN cases : CaseKey(cases[k]) = CaseKey(r)}
  OBVIOUS
<1>2. PICK final : final = CHOOSE k \in same : \A j \in same : j <= k
  OBVIOUS
<1>3. same # {} => final \in same
  <2> SUFFICES ASSUME same # {} PROVE final \in same
    OBVIOUS
  <2>1. Len(cases) \in Nat /\ same \in SUBSET (1..Len(cases))
    BY <1>1
  <2>2. \E k \in same : \A j \in same : j <= k
    BY <2>1, Extremes
  <2> QED
    BY <1>2, <2>2
<1>4. PICK w : w = WithClusters(cases, r)
  OBVIOUS
<1>5. w = IF same = {} THEN r ELSE [r EXCEPT !.src = Completed(r.src, cases[final].src),
                                             !.dst = Completed(r.dst, cases[final].dst)]
  <2>1. w = IF same = {} THEN r ELSE [r EXCEPT !.src = Completed(@, cases[final].src),
                                               !.dst = Completed(@, cases[final].dst)]
    BY <1>1, <1>2, <1>4 DEF WithClusters
  <2> QED
    BY <2>1
<1>6. PICK e, f : e = Completed(r.src, cases[final].src) /\ f = Completed(r.dst, cases[final].dst)
  OBVIOUS
<1>7. w = r \/ w = [r EXCEPT !.src = e, !.dst = f]
  BY <1>5, <1>6
<1>8. /\ w.phase = r.phase /\ w.status = r.status
      /\ same = {} => w.src = r.src /\ w.dst = r.dst
      /\ same # {} => w.src = e /\ w.dst = f
      /\ w.src = r.src \/ w.src = e
  BY <1>5, <1>6, <1>7 DEF ResultSet
<1>9. DOMAIN w = DOMAIN r
  BY <1>7
<1>10. /\ o.phase = w.phase /\ o.src = w.src /\ o.dst = w.dst
       /\ o.status = IF w.phase \in UdpSteps(rules) THEN "fail" ELSE w.status
  <2>1. CASE w.phase \in UdpSteps(rules)
    <3>1. o = [w EXCEPT !.actual = "UNKNOWN", !.status = "fail", !.reason = "udp-not-implemented-yet"]
      BY <1>4, <1>17, <2>1 DEF Published
    <3>2. "status" \in DOMAIN w
      BY <1>9 DEF ResultSet
    <3> QED
      BY <2>1, <3>1, <3>2
  <2>2. CASE w.phase \notin UdpSteps(rules)
    BY <1>4, <1>17, <2>2 DEF Published
  <2> QED
    BY <2>1, <2>2
<1>11. r.src[2] # 0 /\ r.dst[2] # 0 => e = r.src /\ f = r.dst
  BY <1>6 DEF Completed
<1>12. r.src[2] = 0 /\ r.dst[2] = 0 =>
         e = <<r.src[1], cases[final].src[2]>> /\ f = <<r.dst[1], cases[final].dst[2]>>
  BY <1>6 DEF Completed
<1>13. ASSUME r.src[2] = 0, r.dst[2] = 0, \E k \in DOMAIN cases : CaseKey(cases[k]) = CaseKey(r)
       PROVE  \E k \in DOMAIN cases : /\ CaseKey(cases[k]) = CaseKey(r)
                                      /\ o.src = <<r.src[1], cases[k].src[2]>>
                                      /\ o.dst = <<r.dst[1], cases[k].dst[2]>>
  <2>1. same # {}
    BY <1>1, <1>13
  <2>2. final \in DOMAIN cases /\ CaseKey(cases[final]) = CaseKey(r)
    BY <1>1, <1>3, <2>1
  <2>3. o.src = e /\ o.dst = f
    BY <1>8, <1>10, <2>1
  <2> QED
    BY <1>12, <1>13, <2>2, <2>3
<1>14. r.src[2] # 0 /\ r.dst[2] # 0 => o.src = r.src /\ o.dst = r.dst
  BY <1>8, <1>10, <1>11
<1>15. DOMAIN o = DOMAIN w
  BY <1>4, <1>17 DEF Published
<1>16. {"src", "dst", "phase"} \subseteq DOMAIN o
  BY <1>9, <1>15 DEF ResultSet
<1> QED
  BY <1>8, <1>10, <1>13, <1>14, <1>16, <1>17 DEF Reports

LEMMA PassOfInv ==
  Inv => PassIsDeserved
<1> SUFFICES ASSUME Inv, pc = "done", FinalStatus = "PASS", NEW c \in Planned
             PROVE  c \in DOMAIN last /\ last[c] = "pass" /\ c.phase \notin UdpSteps(config.rules)
  BY DEF PassIsDeserved
<1>1. config \in Configs /\ results \in Seq(ResultSet) /\ LastIsKept
  BY DEF Inv, TypeOK
<1>2. PICK cases \in Seq(CaseSet) : cases = CasesOf(config)
  BY <1>1, CasesOfRun
<1> DEFINE o(i) == Published(config.rules, WithClusters(cases, results[i]))
<1>3. \A i \in DOMAIN results : o(i).status = "pass"
  <2>1. Failed(Report.outcomes) = {}
    BY DEF FinalStatus
  <2>2. Report.outcomes = [i \in DOMAIN results |-> o(i)]
    BY <1>2 DEF Report
  <2> HIDE DEF o
  <2> QED
    BY <2>1, <2>2 DEF Failed
<1>4. \A i \in DOMAIN results : results[i].phase \notin UdpSteps(config.rules) /\ results[i].status = "pass"
  <2> SUFFICES ASSUME NEW i \in DOMAIN results
               PROVE  results[i].phase \notin UdpSteps(config.rules) /\ results[i].status = "pass"
    OBVIOUS
  <2>1. PICK r \in ResultSet : r = results[i]
    BY <1>1
  <2>2. PICK rules : rules = config.rules
    OBVIOUS
  <2>3. PICK p : p = Published(rules, WithClusters(cases, r))
    OBVIOUS
  <2>4. p.status = IF r.phase \in UdpSteps(rules) THEN "fail" ELSE r.status
    BY <2>3, PublishedFacts DEF Reports
  <2>5. p.status = "pass"
    BY <1>3, <2>1, <2>2, <2>3
  <2> QED
    BY <2>1, <2>2, <2>4, <2>5
<1>5. Failed(results) = {}
  BY <1>4 DEF Failed
<1>6. c \in Tried
  <2>1. CASE config.phased
    <3>1. phases = <<>> /\ Planned = Tried \cup Rest
      BY <1>5, <2>1 DEF Inv, PhasedInv
    <3>2. Rest = {}
      <4>1. DOMAIN phases = {}
        BY <3>1
      <4> QED
        BY <4>1 DEF Rest
    <3> QED
      BY <3>1, <3>2
  <2>2. CASE ~config.phased
    BY <2>2 DEF Inv, UnphasedInv, Planned
  <2> QED
    BY <2>1, <2>2
<1>7. PICK i \in DOMAIN results : ResultOf(results[i], c) /\ results[i].status = last[c]
  BY <1>1, <1>6 DEF LastIsKept, Tried
<1>8. results[i].phase = c.phase
  BY <1>7 DEF ResultOf
<1> QED
  BY <1>4, <1>6, <1>7, <1>8 DEF Tried

\* A run is reported as passed only if every case that it is to test was run, passed the last
\* time, and is not one of those that are not tested at all.
THEOREM PassDeserved ==
  Spec => []PassIsDeserved
BY PassOfInv, Invariance, PTL

(***************************************************************************)
(* What the panel shows                                                    *)
(***************************************************************************)

LEMMA KeptElements ==
  ASSUME NEW T, NEW seq \in Seq(T), NEW positions \in SUBSET DOMAIN seq, NEW x
  PROVE  x \in Elements(Kept(seq, positions)) <=> \E i \in positions : x = seq[i]
<1>1. DOMAIN Kept(seq, positions) = 1..Cardinality(positions)
  BY KeptFacts
<1>2. \A k \in 1..Cardinality(positions) : InOrder(positions)[k] \in positions
  BY KeptFacts
<1>3. \A k \in 1..Cardinality(positions) : Kept(seq, positions)[k] = seq[InOrder(positions)[k]]
  BY KeptFacts
<1>4. \A i \in positions : \E k \in 1..Cardinality(positions) : Kept(seq, positions)[k] = seq[i]
  BY KeptFacts
<1>5. x \in Elements(Kept(seq, positions)) <=> \E k \in 1..Cardinality(positions) : x = Kept(seq, positions)[k]
  BY <1>1 DEF Elements
<1> QED
  BY <1>2, <1>3, <1>4, <1>5

OnceEach(seq) == \A l, m \in DOMAIN seq : seq[l] = seq[m] => l = m

\* The phases of a result are arranged, each in one place.
LEMMA PhaseOrderFacts ==
  ASSUME NEW details, Len(details) \in Nat, DOMAIN details = 1..Len(details),
         \A i \in DOMAIN details : details[i].phase \in Phases
  PROVE  /\ \A i \in DOMAIN details : \E m \in DOMAIN PhaseOrder(details) : PhaseOrder(details)[m] = details[i].phase
         /\ OnceEach(PhaseOrder(details))
<1>21. PICK n \in Nat : n = Len(details) /\ DOMAIN details = 1..n
  OBVIOUS
<1>1. PICK phs : phs = {details[i].phase : i \in DOMAIN details}
  OBVIOUS
<1>2. PICK numbers : numbers = {PhaseNumber(p) : p \in phs}
  OBVIOUS
<1>3. PICK lex : lex = Lexicographic(numbers)
  OBVIOUS
<1>4. PICK order : order = {pair \in phs \X phs : <<PhaseNumber(pair[1]), PhaseNumber(pair[2])>> \in lex}
  OBVIOUS
<1>5. PICK A : A = Arranged(phs, order)
  OBVIOUS
<1>6. PhaseOrder(details) = A
  BY <1>1, <1>2, <1>3, <1>4, <1>5 DEF PhaseOrder
<1>7. phs \in SUBSET Phases
  BY <1>1
<1>8. IsFiniteSet(phs)
  <2> DEFINE f == [i \in 1..n |-> details[i].phase]
  <2>1. f \in Surjection(1..n, phs)
    BY <1>1, <1>21 DEF Surjection
  <2>2. IsFiniteSet(1..n)
    BY FS_Interval
  <2> HIDE DEF f
  <2> QED
    BY <2>1, <2>2, FS_Surjection
<1>9. \A p \in Phases : PhaseNumber(p) \in Nat \X Nat \X Nat
  <2>1. \A p \in Phases : p.row \in Nat /\ p.step \in Nat /\ PhaseRank(p.kind) \in Nat
    BY DEF Phases, Pairwise, PhaseRank
  <2> QED
    BY <2>1 DEF PhaseNumber
<1>10. \A p, q \in Phases : PhaseNumber(p) = PhaseNumber(q) => p = q
  <2> SUFFICES ASSUME NEW p \in Phases, NEW q \in Phases, PhaseNumber(p) = PhaseNumber(q) PROVE p = q
    OBVIOUS
  <2>1. PhaseRank(p.kind) = PhaseRank(q.kind) /\ p.row = q.row /\ p.step = q.step
    BY DEF PhaseNumber
  <2>2. /\ p.kind \in {"intra-subnet", "custom", "network", "intra-vrf", "cross-vrf-allowlist", "cross-vrf-block"}
        /\ q.kind \in {"intra-subnet", "custom", "network", "intra-vrf", "cross-vrf-allowlist", "cross-vrf-block"}
    BY DEF Phases, Pairwise
  <2>3. p.kind = q.kind
    BY <2>1, <2>2 DEF PhaseRank
  <2>4. p = [kind |-> p.kind, row |-> p.row, step |-> p.step] /\ q = [kind |-> q.kind, row |-> q.row, step |-> q.step]
    BY DEF Phases
  <2> QED
    BY <2>1, <2>3, <2>4
<1>11. numbers \in SUBSET (Nat \X Nat \X Nat)
  BY <1>2, <1>7, <1>9
<1>12. StrictlyOrders(lex, numbers)
  BY <1>3, <1>11, TriplesOrdered
<1>13. StrictlyOrders(order, phs)
  <2>1. \A p \in phs : PhaseNumber(p) \in numbers
    BY <1>2
  <2>2. \A p, q \in phs : <<p, q>> \in order <=> <<PhaseNumber(p), PhaseNumber(q)>> \in lex
    BY <1>4
  <2>3. \A p, q \in phs : p # q => PhaseNumber(p) # PhaseNumber(q)
    BY <1>7, <1>10
  <2> QED
    BY <1>12, <2>1, <2>2, <2>3 DEF StrictlyOrders
<1>14. DOMAIN A = 1..Cardinality(phs) /\ Cardinality(phs) \in Nat
  BY <1>5, <1>8, <1>13, ArrangedFacts
<1>15. \A p \in phs : \E k \in 1..Cardinality(phs) : A[k] = p
  BY <1>5, <1>8, <1>13, ArrangedFacts
<1>16. \A j, k \in 1..Cardinality(phs) : j < k => <<A[j], A[k]>> \in order
  BY <1>5, <1>8, <1>13, ArrangedFacts
<1>17. \A k \in 1..Cardinality(phs) : A[k] \in phs
  BY <1>5, <1>8, <1>13, ArrangedFacts
<1>18. ASSUME NEW l \in DOMAIN A, NEW m \in DOMAIN A, A[l] = A[m] PROVE l = m
  <2>1. ~(l < m) /\ ~(m < l)
    BY <1>13, <1>14, <1>16, <1>17, <1>18 DEF StrictlyOrders
  <2> QED
    BY <1>14, <2>1
<1>19. \A i \in 1..n : \E m \in DOMAIN A : A[m] = details[i].phase
  BY <1>1, <1>14, <1>15, <1>21
<1>20. OnceEach(A)
  BY <1>18 DEF OnceEach
<1> QED
  BY <1>6, <1>19, <1>20, <1>21

LEMMA DistinctOrder ==
  ASSUME NEW T, NEW seq \in Seq(T), NEW D, D = Distinct(seq)
  PROVE  \A j, k \in DOMAIN D : j < k => ComesBefore(seq, D[j], D[k])
<1>1. DOMAIN D = 1..Len(Distinct(seq))
  <2>1. Distinct(seq) \in Seq(T)
    BY DistinctFacts
  <2> QED
    BY <2>1
<1>2. \A j, k \in 1..Len(Distinct(seq)) : j < k => ComesBefore(seq, Distinct(seq)[j], Distinct(seq)[k])
  BY DistinctFacts
<1> QED
  BY <1>1, <1>2

\* An endpoint of a result is one of the rows of its input.
InputEnd(result, details, e) ==
  /\ e \in Elements(EndpointsOf(details))
  /\ \E p \in DOMAIN PolicySort(result.provisioned) : e = Endpoint(PolicySort(result.provisioned)[p])

InAxisOrder(axis, s, t) ==
  /\ \E U : axis \in Seq(U)
  /\ Index(axis, s) \in DOMAIN axis /\ axis[Index(axis, s)] = s
  /\ Index(axis, t) \in DOMAIN axis /\ axis[Index(axis, t)] = t
  /\ Index(axis, s) < Index(axis, t)

\* On the axis, of two rows of the input the one with the smaller subnet comes first.
LEMMA AxisFacts ==
  ASSUME NEW result, result.provisioned \in Seq(NetRows), NEW T, NEW details, EndpointsOf(details) \in Seq(T),
         NEW s, InputEnd(result, details, s), NEW t, InputEnd(result, details, t), s[1] < t[1]
  PROVE  InAxisOrder(AxisOf(result, details), s, t)
<1>40. PICK axis : axis = AxisOf(result, details)
  OBVIOUS
<1>41. PICK p \in DOMAIN PolicySort(result.provisioned) : s = Endpoint(PolicySort(result.provisioned)[p])
  BY DEF InputEnd
<1>42. PICK q \in DOMAIN PolicySort(result.provisioned) : t = Endpoint(PolicySort(result.provisioned)[q])
  BY DEF InputEnd
<1>43. s \in Elements(EndpointsOf(details)) /\ t \in Elements(EndpointsOf(details))
  BY DEF InputEnd
<1>1. PICK rows \in Seq(NetRows) : rows = result.provisioned
  OBVIOUS
<1>2. PICK ends : ends = EndpointsOf(details)
  OBVIOUS
<1>3. PICK sorted : sorted = PolicySort(rows)
  OBVIOUS
<1>4. sorted \in Seq(NetRows)
  BY <1>3, PolicySortFacts
<1>5. \A j, k \in DOMAIN sorted : j < k => sorted[j].subnet <= sorted[k].subnet
  BY <1>3, PolicySortFacts
<1>6. PICK n \in Nat : DOMAIN sorted = 1..n /\ n = Len(sorted)
  BY <1>4
<1>7. PICK U : U = T \cup (Nat \X Nat)
  OBVIOUS
<1>8. PICK eps : eps = [i \in DOMAIN sorted |-> Endpoint(sorted[i])]
  OBVIOUS
<1>9. /\ eps \in Seq(U) /\ DOMAIN eps = 1..n
      /\ \A i \in 1..n : eps[i] = Endpoint(sorted[i]) /\ eps[i][1] = sorted[i].subnet /\ sorted[i].subnet \in Nat
  <2>1. \A i \in 1..n : Endpoint(sorted[i]) \in Nat \X Nat /\ Endpoint(sorted[i])[1] = sorted[i].subnet
                        /\ sorted[i].subnet \in Nat
    BY <1>4, <1>6, RowTypes DEF Endpoint
  <2>2. eps \in [1..n -> U]
    BY <1>6, <1>7, <1>8, <2>1
  <2>3. eps \in Seq(U) /\ DOMAIN eps = 1..n
    BY <2>2
  <2> QED
    BY <1>6, <1>8, <2>1, <2>3
<1>10. PICK known : known = {i \in DOMAIN sorted : ends = <<>> \/ Endpoint(sorted[i]) \in Elements(ends)}
  OBVIOUS
<1>11. known \in SUBSET DOMAIN eps /\ p \in known /\ q \in known
  BY <1>1, <1>2, <1>3, <1>6, <1>9, <1>10, <1>41, <1>42, <1>43
<1>12. PICK K : K = Kept(eps, known)
  OBVIOUS
<1>13. PICK c : c = Cardinality(known)
  OBVIOUS
<1>14. K \in Seq(U) /\ DOMAIN K = 1..c /\ c \in Nat
  BY <1>9, <1>11, <1>12, <1>13, KeptFacts
<1>15. PICK P : P = InOrder(known)
  OBVIOUS
<1>16. \A k \in 1..c : P[k] \in known
  BY <1>9, <1>11, <1>13, <1>15, KeptFacts
<1>17. \A k \in 1..c : K[k] = eps[P[k]]
  BY <1>9, <1>11, <1>12, <1>13, <1>15, KeptFacts
<1>18. \A j, k \in 1..c : j < k => P[j] < P[k]
  BY <1>9, <1>11, <1>13, <1>15, KeptFacts
<1>19. \A i \in known : \E k \in 1..c : K[k] = eps[i]
  BY <1>9, <1>11, <1>12, <1>13, KeptFacts
<1>20. ASSUME NEW j \in 1..c, NEW k \in 1..c, j < k PROVE K[j][1] <= K[k][1]
  <2>1. P[j] \in 1..n /\ P[k] \in 1..n /\ P[j] < P[k]
    BY <1>9, <1>11, <1>16, <1>18, <1>20
  <2>2. sorted[P[j]].subnet <= sorted[P[k]].subnet
    BY <1>5, <1>6, <2>1
  <2> QED
    BY <1>9, <1>17, <2>1, <2>2
<1>21. PICK a \in 1..c, b \in 1..c : K[a] = s /\ K[b] = t
  <2>1. eps[p] = s /\ eps[q] = t
    BY <1>1, <1>3, <1>6, <1>9, <1>41, <1>42
  <2> QED
    BY <1>11, <1>19, <2>1
<1>35. s[1] \in Nat /\ t[1] \in Nat
  <2>1. p \in 1..n /\ q \in 1..n /\ s = eps[p] /\ t = eps[q]
    BY <1>1, <1>3, <1>6, <1>9, <1>41, <1>42
  <2>2. eps[p][1] = sorted[p].subnet /\ eps[q][1] = sorted[q].subnet
    BY <1>9, <2>1
  <2>3. sorted[p].subnet \in Nat /\ sorted[q].subnet \in Nat
    BY <1>9, <2>1
  <2> QED
    BY <2>1, <2>2, <2>3
<1>22. PICK list : list = K \o ends
  OBVIOUS
<1>23. ends \in Seq(U) /\ Len(ends) \in Nat
  BY <1>2, <1>7
<1>24. /\ list \in Seq(U) /\ DOMAIN list = 1..(c + Len(ends))
       /\ \A k \in 1..c : k \in DOMAIN list /\ list[k] = K[k]
  <2>1. Len(K) = c
    BY <1>14
  <2>5. K \in Seq(U) /\ ends \in Seq(U)
    BY <1>14, <1>23
  <2>2. list \in Seq(U)
    BY <1>22, <2>5
  <2>3. DOMAIN list = 1..(c + Len(ends))
    <3>1. DOMAIN list = 1..(Len(K) + Len(ends))
      BY <1>22, <2>5
    <3> QED
      BY <2>1, <3>1
  <2>4. ASSUME NEW k \in 1..c PROVE k \in DOMAIN list /\ list[k] = K[k]
    <3>1. k \in 1..(c + Len(ends))
      BY <1>14, <1>23
    <3> QED
      BY <1>14, <1>22, <2>1, <2>3, <2>5, <3>1
  <2> QED
    BY <2>2, <2>3, <2>4
<1>36. list \in Seq(U)
  BY <1>24
<1>25. axis = Distinct(list)
  BY <1>1, <1>2, <1>3, <1>8, <1>10, <1>12, <1>22, <1>40 DEF AxisOf, PanelSort, PolicySort
<1>26. axis \in Seq(U) /\ Len(axis) \in Nat /\ DOMAIN axis = 1..Len(axis)
  <2>1. axis \in Seq(U)
    BY <1>24, <1>25, DistinctFacts
  <2> QED
    BY <2>1
<1>27. \A i \in DOMAIN list : \E k \in DOMAIN axis : axis[k] = list[i]
  <2>1. \A i \in DOMAIN list : \E k \in 1..Len(Distinct(list)) : Distinct(list)[k] = list[i]
    BY <1>36, DistinctHas
  <2> QED
    BY <1>25, <1>26, <2>1
<1>28. \A j, k \in DOMAIN axis : j < k => ComesBefore(list, axis[j], axis[k])
  BY <1>25, <1>36, DistinctOrder
<1>29. Index(axis, s) \in DOMAIN axis /\ axis[Index(axis, s)] = s
  <2>1. \E k \in DOMAIN axis : axis[k] = s
    BY <1>21, <1>24, <1>27
  <2> QED
    BY <2>1 DEF Index
<1>30. Index(axis, t) \in DOMAIN axis /\ axis[Index(axis, t)] = t
  <2>1. \E k \in DOMAIN axis : axis[k] = t
    BY <1>21, <1>24, <1>27
  <2> QED
    BY <2>1 DEF Index
<1>31. PICK x \in DOMAIN axis, y \in DOMAIN axis : x = Index(axis, s) /\ y = Index(axis, t)
  BY <1>29, <1>30
<1>32. ~(y < x)
  <2> SUFFICES ASSUME y < x PROVE FALSE
    OBVIOUS
  <2>1. PICK h \in DOMAIN list, i \in DOMAIN list :
          h < i /\ t = list[h] /\ s = list[i] /\ \A g \in 1..(i - 1) : list[g] # list[i]
    BY <1>28, <1>29, <1>30, <1>31 DEF ComesBefore
  <2>2. ~(a < i)
    <3> SUFFICES ASSUME a < i PROVE FALSE
      OBVIOUS
    <3>1. a \in 1..(i - 1)
      BY <1>14, <1>23, <1>24
    <3>2. list[a] = s
      BY <1>21, <1>24
    <3> QED
      BY <2>1, <3>1, <3>2
  <2>3. i \in 1..c /\ h \in 1..c
    BY <1>14, <1>23, <1>24, <2>1, <2>2
  <2>4. K[h] = t /\ K[i] = s
    BY <1>24, <2>1, <2>3
  <2>5. t[1] <= s[1]
    BY <1>20, <2>1, <2>3, <2>4
  <2>6. s[1] \in Int /\ t[1] \in Int
    BY <1>35
  <2> QED
    BY <2>5, <2>6
<1>33. x # y
  <2>1. s[1] \in Int /\ t[1] \in Int
    BY <1>35
  <2>2. s # t
    BY <2>1
  <2> QED
    BY <1>29, <1>30, <1>31, <2>2
<1>34. x < y
  BY <1>26, <1>32, <1>33
<1>44. \E V : axis \in Seq(V)
  BY <1>26
<1> QED
  BY <1>29, <1>30, <1>31, <1>34, <1>40, <1>44 DEF InAxisOrder

\* A case of a pair of rows is seen in one cell of one matrix.
LEMMA SeenOnce ==
  ASSUME NEW result, ResultOfARun(result),
         \A i \in DOMAIN result.outcomes : {"src", "dst", "phase"} \subseteq DOMAIN result.outcomes[i]
  PROVE  EachCaseOnce(ProcessResult(result))
<1>1. PICK rows \in Seq(NetRows) : rows = result.provisioned
  BY DEF ResultOfARun
<1>2. PICK outcomes : outcomes = result.outcomes
  OBVIOUS
<1>3. PICK n \in Nat : DOMAIN outcomes = 1..n
  BY <1>2 DEF ResultOfARun
<1>4. PICK G : G = GenerateTestCases(rows)
  OBVIOUS
<1>5. /\ \A i \in 1..n : outcomes[i].phase \in Phases /\ {"src", "dst", "phase"} \subseteq DOMAIN outcomes[i]
      /\ \A i \in 1..n : outcomes[i].phase.kind \in Pairwise =>
           \E k \in DOMAIN G : outcomes[i].src = G[k].src /\ outcomes[i].dst = G[k].dst
  BY <1>1, <1>2, <1>3, <1>4 DEF ResultOfARun
<1>6. PICK details : details = DetailsOf(result)
  OBVIOUS
<1>7. PICK all : all = ParsedRows(result)
  OBVIOUS
<1>8. details = [i \in 1..n |-> [outcomes[i] EXCEPT !.src = Located(all, outcomes[i].src),
                                                    !.dst = Located(all, outcomes[i].dst)]]
  BY <1>2, <1>3, <1>6, <1>7 DEF DetailsOf
<1>25. /\ DOMAIN details = 1..n
       /\ \A i \in 1..n : details[i] = [outcomes[i] EXCEPT !.src = Located(all, outcomes[i].src),
                                                           !.dst = Located(all, outcomes[i].dst)]
  BY <1>8
<1>20. PICK D : details \in Seq(D)
  <2>1. PICK D : D = {details[i] : i \in 1..n}
    OBVIOUS
  <2>2. details \in [1..n -> D]
    BY <1>8, <2>1
  <2>3. details \in Seq(D)
    BY <2>2
  <2> QED
    BY <2>3
<1>26. Len(details) = n
  <2>1. Len(details) \in Nat /\ DOMAIN details = 1..Len(details)
    BY <1>20
  <2>2. DOMAIN details = 1..n
    BY <1>25
  <2>3. 1..n = 1..Len(details)
    BY <2>1, <2>2
  <2>4. PICK l \in Nat : l = Len(details) /\ 1..n = 1..l
    BY <2>1, <2>3
  <2>5. ~(l < n)
    <3>1. n \in 1..n => n \in 1..l
      BY <2>4
    <3> QED
      BY <3>1
  <2>6. ~(n < l)
    <3>1. l \in 1..l => l \in 1..n
      BY <2>4
    <3> QED
      BY <3>1
  <2>7. l = n
    BY <2>5, <2>6
  <2> QED
    BY <2>4, <2>7
<1>9. ASSUME NEW i \in 1..n
      PROVE  /\ details[i].phase = outcomes[i].phase
             /\ details[i].src = Located(all, outcomes[i].src) /\ details[i].dst = Located(all, outcomes[i].dst)
  <2>1. PICK o : o = outcomes[i]
    OBVIOUS
  <2>2. PICK s : s = Located(all, outcomes[i].src)
    OBVIOUS
  <2>3. PICK d : d = Located(all, outcomes[i].dst)
    OBVIOUS
  <2>4. details[i] = [o EXCEPT !.src = s, !.dst = d]
    BY <1>25, <2>1, <2>2, <2>3
  <2>5. "src" \in DOMAIN o /\ "dst" \in DOMAIN o /\ "phase" \in DOMAIN o
    BY <1>5, <2>1
  <2>6. details[i].phase = o.phase /\ details[i].src = s /\ details[i].dst = d
    BY <2>4, <2>5
  <2> QED
    BY <2>1, <2>2, <2>3, <2>6
<1>10. ASSUME NEW i \in 1..n, details[i].phase.kind \in Pairwise
       PROVE  \E k \in DOMAIN G : details[i].src = G[k].src /\ details[i].dst = G[k].dst
  <2>1. PICK k \in DOMAIN G : outcomes[i].src = G[k].src /\ outcomes[i].dst = G[k].dst
    BY <1>5, <1>9, <1>10
  <2>2. Ordered(G[k].src, G[k].dst)
    BY <1>4, GeneratedFacts
  <2>3. G[k].src[2] # 0 /\ G[k].dst[2] # 0
    BY <2>2 DEF Ordered
  <2> QED
    BY <1>9, <2>1, <2>3 DEF Located
<1>11. PICK ends : ends = EndpointsOf(details)
  OBVIOUS
<1>12. PICK T : T = {ends[k] : k \in 1..(2 * n)}
  OBVIOUS
<1>13. /\ ends \in Seq(T) /\ \A i \in 1..n : details[i].src \in Elements(ends) /\ details[i].dst \in Elements(ends)
  <2>1. ends = [k \in 1..(2 * n) |-> IF k % 2 = 1 THEN details[(k + 1) \div 2].src ELSE details[k \div 2].dst]
    BY <1>26, <1>11 DEF EndpointsOf
  <2>2. DOMAIN ends = 1..(2 * n) /\ \A k \in 1..(2 * n) :
          ends[k] = IF k % 2 = 1 THEN details[(k + 1) \div 2].src ELSE details[k \div 2].dst
    BY <2>1
  <2>3. ends \in Seq(T)
    <3>1. 2 * n \in Nat
      OBVIOUS
    <3>2. ends \in [1..(2 * n) -> T]
      BY <1>12, <2>1
    <3> QED
      BY <3>1, <3>2
  <2>4. ASSUME NEW i \in 1..n PROVE details[i].src \in Elements(ends) /\ details[i].dst \in Elements(ends)
    <3>1. /\ 2 * i - 1 \in 1..(2 * n) /\ (2 * i - 1) % 2 = 1 /\ (2 * i - 1 + 1) \div 2 = i
          /\ 2 * i \in 1..(2 * n) /\ (2 * i) % 2 # 1 /\ (2 * i) \div 2 = i
      OBVIOUS
    <3>2. ends[2 * i - 1] = details[i].src /\ ends[2 * i] = details[i].dst
      BY <2>2, <3>1
    <3> QED
      BY <2>2, <3>1, <3>2 DEF Elements
  <2> QED
    BY <2>3, <2>4
<1>14. PICK axis : axis = AxisOf(result, details)
  OBVIOUS
<1>15. ASSUME NEW i \in 1..n, details[i].phase.kind \in Pairwise
       PROVE  InAxisOrder(axis, details[i].src, details[i].dst)
  <2>1. PICK k \in DOMAIN G : details[i].src = G[k].src /\ details[i].dst = G[k].dst
    BY <1>10, <1>15
  <2>2. PICK sorted : sorted = PolicySort(rows)
    OBVIOUS
  <2>3. PICK pairs : pairs = Combinations(sorted)
    OBVIOUS
  <2>4. /\ k \in DOMAIN pairs
        /\ G[k].src = Endpoint(sorted[pairs[k][1]]) /\ G[k].dst = Endpoint(sorted[pairs[k][2]])
    BY <1>4, <2>2, <2>3 DEF GenerateTestCases, Case
  <2>5. /\ pairs[k][1] \in DOMAIN sorted /\ pairs[k][2] \in DOMAIN sorted
        /\ Ordered(Endpoint(sorted[pairs[k][1]]), Endpoint(sorted[pairs[k][2]]))
    BY <2>2, <2>3, <2>4, EndpointsOrdered
  <2>6. PICK p \in DOMAIN sorted, q \in DOMAIN sorted : p = pairs[k][1] /\ q = pairs[k][2]
    BY <2>5
  <2>7. PICK s, t : s = details[i].src /\ t = details[i].dst
    OBVIOUS
  <2>8. s = Endpoint(sorted[p]) /\ t = Endpoint(sorted[q]) /\ s[1] < t[1]
    BY <2>1, <2>4, <2>5, <2>6, <2>7 DEF Ordered
  <2>9. s \in Elements(EndpointsOf(details)) /\ t \in Elements(EndpointsOf(details))
    BY <1>11, <1>13, <2>7
  <2>10. InputEnd(result, details, s)
    BY <1>1, <2>2, <2>8, <2>9 DEF InputEnd
  <2>11. InputEnd(result, details, t)
    BY <1>1, <2>2, <2>8, <2>9 DEF InputEnd
  <2>12. EndpointsOf(details) \in Seq(T) /\ result.provisioned \in Seq(NetRows)
    BY <1>1, <1>11, <1>13
  <2>13. InAxisOrder(AxisOf(result, details), s, t)
    BY <2>8, <2>10, <2>11, <2>12, AxisFacts
  <2> QED
    BY <1>14, <2>7, <2>13
<1>16. PICK order : order = PhaseOrder(details)
  OBVIOUS
<1>17. /\ \A i \in 1..n : \E m \in DOMAIN order : order[m] = details[i].phase
       /\ \A l, m \in DOMAIN order : order[l] = order[m] => l = m
  <2>1. \A i \in 1..n : details[i].phase \in Phases
    BY <1>5, <1>9
  <2>2. \A i \in 1..n : \E m \in DOMAIN PhaseOrder(details) : PhaseOrder(details)[m] = details[i].phase
    BY <1>25, <1>26, <2>1, PhaseOrderFacts
  <2>3. OnceEach(PhaseOrder(details))
    BY <1>25, <1>26, <2>1, PhaseOrderFacts
  <2> QED
    BY <1>16, <2>2, <2>3 DEF OnceEach
<1>18. PICK matrices : matrices = [m \in DOMAIN order |-> MatrixOf(details, axis, order[m])]
  OBVIOUS
<1>19. ProcessResult(result).details = details /\ ProcessResult(result).matrices = matrices
  BY <1>6, <1>14, <1>16, <1>18 DEF ProcessResult
<1>21. ASSUME NEW m \in DOMAIN order, NEW d, NEW s, NEW t, d \in Elements(CellsFor(matrices[m], s, t))
       PROVE  d.src = s /\ d.dst = t /\ d.phase = order[m]
  <2>1. PICK S : S = {i \in DOMAIN details : details[i].phase = order[m]}
    OBVIOUS
  <2>2. PICK C : C = Kept(details, S)
    OBVIOUS
  <2>3. matrices[m].cases = C
    BY <1>18, <2>1, <2>2 DEF MatrixOf
  <2>4. PICK Q : Q = {i \in DOMAIN C : C[i].src = s /\ C[i].dst = t}
    OBVIOUS
  <2>5. CellsFor(matrices[m], s, t) = <<>> \/ CellsFor(matrices[m], s, t) = Kept(C, Q)
    BY <2>3, <2>4 DEF CellsFor
  <2>13. d \notin Elements(<<>>)
    BY DEF Elements
  <2>6. d \in Elements(Kept(C, Q))
    BY <1>21, <2>5, <2>13
  <2>7. C \in Seq(D)
    BY <1>20, <2>1, <2>2, KeptFacts
  <2>8. Q \in SUBSET DOMAIN C
    BY <2>4
  <2>9. PICK i \in Q : d = C[i]
    BY <2>6, <2>7, <2>8, KeptElements
  <2>10. d \in Elements(C)
    BY <2>8, <2>9 DEF Elements
  <2>11. S \in SUBSET DOMAIN details
    BY <2>1
  <2>12. PICK j \in S : d = details[j]
    BY <1>20, <2>2, <2>10, <2>11, KeptElements
  <2> QED
    BY <2>1, <2>4, <2>9, <2>12
<1>22. ASSUME NEW i \in 1..n, details[i].phase.kind \in Pairwise, NEW m \in DOMAIN order,
              order[m] = details[i].phase
       PROVE  <<m, details[i].src, details[i].dst>> \in CellsOf(matrices, details[i])
  <2>1. PICK d, s, t : d = details[i] /\ s = d.src /\ t = d.dst
    OBVIOUS
  <2>21. InAxisOrder(axis, s, t)
    BY <1>15, <1>22, <2>1
  <2>2. PICK U : axis \in Seq(U)
    BY <2>21 DEF InAxisOrder
  <2>3. PICK x \in DOMAIN axis, y \in DOMAIN axis :
          x = Index(axis, s) /\ y = Index(axis, t) /\ axis[x] = s /\ axis[y] = t /\ x < y
    BY <2>21 DEF InAxisOrder
  <2> DEFINE S     == {j \in DOMAIN details : details[j].phase = order[m]}
             C     == Kept(details, S)
             pairs == {<<C[j].src, C[j].dst>> : j \in DOMAIN C}
             X     == {j \in DOMAIN axis : \E k \in DOMAIN axis : j < k /\ <<axis[j], axis[k]>> \in pairs}
             R     == Kept(axis, X)
             Y     == {k \in DOMAIN axis : \E j \in DOMAIN axis :
                          j < k /\ axis[j] \in Elements(R) /\ <<axis[j], axis[k]>> \in pairs}
  <2>10. PICK matrix : matrix = matrices[m]
    OBVIOUS
  <2>22. MatrixOf(details, axis, order[m])
           = [phase |-> order[m], cases |-> C, rows |-> R, cols |-> Kept(axis, Y), axis |-> axis]
    BY DEF MatrixOf
  <2>4. S = {j \in DOMAIN details : details[j].phase = order[m]}
    OBVIOUS
  <2>5. C = Kept(details, S)
    OBVIOUS
  <2>6. pairs = {<<C[j].src, C[j].dst>> : j \in DOMAIN C}
    OBVIOUS
  <2>7. X = {j \in DOMAIN axis : \E k \in DOMAIN axis : j < k /\ <<axis[j], axis[k]>> \in pairs}
    OBVIOUS
  <2>8. R = Kept(axis, X)
    OBVIOUS
  <2>9. Y = {k \in DOMAIN axis : \E j \in DOMAIN axis :
               j < k /\ axis[j] \in Elements(R) /\ <<axis[j], axis[k]>> \in pairs}
    OBVIOUS
  <2> HIDE DEF S, C, pairs, X, R, Y
  <2>23. matrix = MatrixOf(details, axis, order[m])
    BY <1>18, <2>10
  <2>11. /\ matrix.cases = C /\ matrix.rows = R /\ matrix.cols = Kept(axis, Y) /\ matrix.axis = axis
    BY <2>22, <2>23
  <2>12. d \in Elements(C)
    <3>1. i \in S /\ S \in SUBSET DOMAIN details
      BY <1>25, <1>22, <2>4
    <3> QED
      BY <1>20, <2>1, <2>5, <3>1, KeptElements
  <2>13. <<s, t>> \in pairs
    BY <2>1, <2>6, <2>12 DEF Elements
  <2>14. s \in Elements(R)
    <3>1. x \in X /\ X \in SUBSET DOMAIN axis
      BY <2>3, <2>7, <2>13
    <3> QED
      BY <2>2, <2>3, <2>8, <3>1, KeptElements
  <2>15. t \in Elements(matrix.cols)
    <3>1. y \in Y /\ Y \in SUBSET DOMAIN axis
      BY <2>3, <2>9, <2>13, <2>14
    <3> QED
      BY <2>2, <2>3, <2>11, <3>1, KeptElements
  <2>16. d \in Elements(CellsFor(matrix, s, t))
    <3>1. PICK Q : Q = {j \in DOMAIN C : C[j].src = s /\ C[j].dst = t}
      OBVIOUS
    <3>2. UpperTriangle(matrix.axis, s, t)
      BY <2>3, <2>11 DEF UpperTriangle
    <3>3. CellsFor(matrix, s, t) = Kept(C, Q)
      BY <2>11, <3>1, <3>2 DEF CellsFor
    <3>4. PICK j \in DOMAIN C : d = C[j]
      BY <2>12 DEF Elements
    <3>5. j \in Q /\ Q \in SUBSET DOMAIN C
      BY <2>1, <3>1, <3>4
    <3>6. C \in Seq(D)
      BY <1>20, <2>4, <2>5, KeptFacts
    <3> QED
      BY <3>3, <3>4, <3>5, <3>6, KeptElements
  <2>17. PICK places : places = UNION {Elements(matrices[l].axis) : l \in DOMAIN matrices}
    OBVIOUS
  <2>18. m \in DOMAIN matrices
    BY <1>18
  <2>19. s \in places /\ t \in places
    BY <2>3, <2>10, <2>11, <2>17, <2>18 DEF Elements
  <2>20. <<m, s, t>> \in CellsOf(matrices, d)
    BY <2>10, <2>11, <2>14, <2>15, <2>16, <2>17, <2>18, <2>19 DEF CellsOf
  <2> QED
    BY <2>1, <2>20
<1>23. ASSUME NEW i \in 1..n, NEW m \in DOMAIN order, order[m] = details[i].phase,
              NEW cell \in CellsOf(matrices, details[i])
       PROVE  cell = <<m, details[i].src, details[i].dst>>
  <2>1. DOMAIN matrices = DOMAIN order
    BY <1>18
  <2>2. PICK places : places = UNION {Elements(matrices[l].axis) : l \in DOMAIN matrices}
    OBVIOUS
  <2>3. /\ cell \in (DOMAIN order) \X places \X places
        /\ details[i] \in Elements(CellsFor(matrices[cell[1]], cell[2], cell[3]))
    BY <2>1, <2>2 DEF CellsOf
  <2>4. cell[1] \in DOMAIN order /\ cell = <<cell[1], cell[2], cell[3]>>
    BY <2>3
  <2>5. /\ details[i].src = cell[2] /\ details[i].dst = cell[3] /\ details[i].phase = order[cell[1]]
    <3>1. PICK l \in DOMAIN order : l = cell[1]
      BY <2>4
    <3>2. PICK a : a = cell[2]
      OBVIOUS
    <3>3. PICK b : b = cell[3]
      OBVIOUS
    <3>4. PICK d : d = details[i]
      OBVIOUS
    <3>5. d \in Elements(CellsFor(matrices[l], a, b))
      BY <2>3, <3>1, <3>2, <3>3, <3>4
    <3>6. d.src = a /\ d.dst = b /\ d.phase = order[l]
      BY <1>21, <3>5
    <3> QED
      BY <3>1, <3>2, <3>3, <3>4, <3>6
  <2>6. cell[1] = m
    BY <1>17, <1>23, <2>4, <2>5
  <2> QED
    BY <2>4, <2>5, <2>6
<1>24. ASSUME NEW i \in 1..n, details[i].phase.kind \in Pairwise
       PROVE  \E cell \in CellsOf(matrices, details[i]) : CellsOf(matrices, details[i]) = {cell}
  <2>1. PICK m \in DOMAIN order : order[m] = details[i].phase
    BY <1>17
  <2>2. PICK cell : cell = <<m, details[i].src, details[i].dst>>
    OBVIOUS
  <2>3. cell \in CellsOf(matrices, details[i])
    BY <1>22, <1>24, <2>1, <2>2
  <2>4. \A c \in CellsOf(matrices, details[i]) : c = cell
    BY <1>23, <2>1, <2>2
  <2> QED
    BY <2>3, <2>4
<1> QED
  BY <1>19, <1>24, <1>25 DEF EachCaseOnce

\* A result of the controller names no clusters, and no probe but a ping.
Bare(r) == r.src[2] = 0 /\ r.dst[2] = 0 /\ r.probe = "icmp"
ResultsAreBare == config.mode = "controller-gateway" => \A i \in DOMAIN results : Bare(results[i])

LEMMA ChecksAreBare ==
  ASSUME NEW cases \in Seq(CaseSet), config.mode = "controller-gateway", NEW new \in NewResults(cases),
         NEW k \in DOMAIN new
  PROVE  Bare(new[k])
<1>1. PICK subnets : subnets = Subnets(config)
  OBVIOUS
<1>2. PICK found \in Findings(cases, "controller-gateway") :
        new = RunChecks(cases, "controller-gateway", subnets, found)
  BY <1>1 DEF NewResults
<1>3. new = [j \in DOMAIN cases |-> FromController(cases, j, found)]
  BY <1>2 DEF RunChecks
<1>4. k \in DOMAIN cases /\ new[k] = FromController(cases, k, found)
  BY <1>3
<1>5. found[GatewayOf(cases[k])] \in {"PASS", "FAIL"}
  BY <1>2, <1>4 DEF Findings
<1>6. PICK x \in CaseSet : x = cases[k] /\ found[GatewayOf(x)] \in {"PASS", "FAIL"}
  BY <1>4, <1>5
<1>7. /\ FromController(cases, k, found).src = <<x.src[1], 0>>
      /\ FromController(cases, k, found).dst = <<x.dst[1], 0>>
      /\ FromController(cases, k, found).probe = "icmp"
  BY <1>6, ControllerFacts
<1> QED
  BY <1>4, <1>7 DEF Bare

LEMMA TakeBare ==
  ASSUME config \in Configs, results \in Seq(ResultSet), KeysAreUnique, ResultsAreBare,
         NEW cases \in Seq(CaseSet), \A k \in DOMAIN cases : CaseOK(config, cases[k]),
         NEW new \in NewResults(cases), Take(cases, new), config' = config
  PROVE  ResultsAreBare'
<1> SUFFICES ASSUME config.mode = "controller-gateway" PROVE \A i \in DOMAIN results' : Bare(results'[i])
  BY DEF ResultsAreBare, Bare
<1>1. PICK found \in Findings(cases, config.mode) : new = RunChecks(cases, config.mode, Subnets(config), found)
  BY DEF NewResults
<1>2. new \in Seq(ResultSet)
  <2>1. PICK mode \in Modes : mode = config.mode
    BY DEF Modes
  <2>2. found \in Findings(cases, mode) /\ new = RunChecks(cases, mode, Subnets(config), found)
    BY <1>1, <2>1
  <2>3. \A j, k \in DOMAIN cases : cases[j].phase = cases[k].phase => cases[j].probe = cases[k].probe
    BY DEF CaseOK
  <2> QED
    BY <2>1, <2>2, <2>3, RunChecksFacts
<1>3. PICK M : M = results' /\ M = MergeRetryResults(results, new)
  BY DEF Take
<1>4. \A i \in DOMAIN M : (\E j \in DOMAIN results : M[i] = results[j]) \/ (\E k \in DOMAIN new : M[i] = new[k])
  <2>1. \A i, j \in DOMAIN results : ResultKey(results[i]) = ResultKey(results[j]) => i = j
    BY DEF KeysAreUnique
  <2> QED
    BY <1>2, <1>3, <2>1, MergeFacts
<1>5. \A j \in DOMAIN results : Bare(results[j])
  BY DEF ResultsAreBare
<1>6. \A k \in DOMAIN new : Bare(new[k])
  BY ChecksAreBare
<1> QED
  BY <1>3, <1>4, <1>5, <1>6

LEMMA NextBare ==
  Inv /\ ResultsAreBare /\ [Next]_vars => ResultsAreBare'
<1> SUFFICES ASSUME Inv, ResultsAreBare, [Next]_vars PROVE ResultsAreBare'
  OBVIOUS
<1>1. config \in Configs /\ results \in Seq(ResultSet) /\ KeysAreUnique /\ UnphasedInv /\ PhasedInv
  BY DEF Inv, TypeOK
<1>2. CASE Attempt
  <2>1. pc = "attempts" /\ current # <<>> /\ config' = config
    BY <1>2 DEF Attempt
  <2>2. ~config.phased
    BY <1>1, <2>1 DEF PhasedInv
  <2>3. current = CasesOf(config)
    BY <1>1, <2>1, <2>2 DEF UnphasedInv
  <2>4. PICK cases \in Seq(CaseSet) : cases = CasesOf(config) /\ \A k \in DOMAIN cases : CaseOK(config, cases[k])
    BY <1>1, CasesOfRun
  <2>5. PICK new \in NewResults(cases) : Take(cases, new)
    BY <1>2, <2>3, <2>4 DEF Attempt
  <2> QED
    BY <1>1, <2>1, <2>4, <2>5, TakeBare
<1>3. CASE Phase
  <2>1. pc = "phases" /\ phases # <<>> /\ config' = config
    BY <1>3 DEF Phase
  <2>2. PhaseList(config, PhaseKinds, phases)
    BY <1>1, <2>1 DEF UnphasedInv, PhasedInv
  <2>3. PICK cases : cases = Head(phases)
    OBVIOUS
  <2>4. 1 \in DOMAIN phases /\ cases = phases[1]
    <3>1. PICK U : U = Seq(CaseSet)
      OBVIOUS
    <3>2. phases \in Seq(U)
      BY <2>2, <3>1 DEF PhaseList
    <3> QED
      BY <2>1, <2>3, <3>2
  <2>5. cases \in Seq(CaseSet) /\ \A k \in DOMAIN cases : CaseOK(config, cases[k])
    BY <2>2, <2>4 DEF PhaseList, PhaseOK
  <2>6. PICK new \in NewResults(cases) : Take(cases, new)
    BY <1>3, <2>3 DEF Phase
  <2> QED
    BY <1>1, <2>1, <2>5, <2>6, TakeBare
<1>4. CASE Exhausted \/ PhasesEnd \/ UNCHANGED vars
  <2>1. config' = config /\ results' = results
    BY <1>4 DEF Exhausted, PhasesEnd, vars
  <2> QED
    BY <2>1 DEF ResultsAreBare, Bare
<1> QED
  BY <1>2, <1>3, <1>4 DEF Next

\* Every case that was run is one of the run's.
LEMMA TriedOK ==
  ASSUME Inv, NEW c \in Tried
  PROVE  /\ CaseOK(config, c)
         /\ ~config.phased => \E m \in DOMAIN CasesOf(config) : CasesOf(config)[m] = c
<1>1. config \in Configs /\ ConfigOK(config)
  BY ConfigFacts DEF Inv, TypeOK
<1>2. CASE config.phased
  <2>1. c \in Planned
    BY <1>2 DEF Inv, PhasedInv
  <2>2. PICK X : X = PhasesOf(config)
    OBVIOUS
  <2>3. PICK n \in DOMAIN X : c \in Elements(X[n])
    BY <1>2, <2>1, <2>2 DEF Planned
  <2>4. PICK cfg : cfg = config
    OBVIOUS
  <2>5. PhaseList(cfg, {"intra-subnet", "intra-vrf", "cross-vrf-allowlist", "cross-vrf-block"}, PhasesOf(cfg))
    BY <1>1, <2>4, PhasesOfFacts
  <2>6. PhaseOK(cfg, X[n])
    BY <2>2, <2>3, <2>4, <2>5 DEF PhaseList
  <2>7. CaseOK(cfg, c)
    BY <2>3, <2>6 DEF PhaseOK, Elements
  <2> QED
    BY <1>2, <2>4, <2>7
<1>3. CASE ~config.phased
  <2>1. c \in Elements(CasesOf(config))
    BY <1>3 DEF Inv, UnphasedInv
  <2>2. PICK m \in DOMAIN CasesOf(config) : CasesOf(config)[m] = c
    BY <2>1 DEF Elements
  <2>3. \A k \in DOMAIN CasesOf(config) : CaseOK(config, CasesOf(config)[k])
    BY <1>1, CasesOfRun
  <2> QED
    BY <2>2, <2>3
<1> QED
  BY <1>2, <1>3

\* What is reported of a pair of rows is between the endpoints of a pair.
LEMMA OutcomeOfPair ==
  ASSUME Inv, ResultsAreBare, config.phased => config.mode # "controller-gateway",
         NEW G, G = GenerateTestCases(config.rows), NEW r \in ResultSet, r.phase.kind \in Pairwise,
         NEW c \in Tried, ResultOf(r, c), config.mode = "controller-gateway" => Bare(r),
         NEW o, o = Published(config.rules, WithClusters(CasesOf(config), r))
  PROVE  \E k \in DOMAIN G : o.src = G[k].src /\ o.dst = G[k].dst
<1>1. config \in Configs /\ ConfigOK(config) /\ config.rows \in Seq(NetRows)
  BY ConfigFacts DEF Inv, TypeOK, ConfigOK
<1>2. PICK cases \in Seq(CaseSet) : cases = CasesOf(config) /\ \A m \in DOMAIN cases : CaseOK(config, cases[m])
  BY <1>1, CasesOfRun
<1>3. PICK rules : rules = config.rules
  OBVIOUS
<1>4. o = Published(rules, WithClusters(cases, r))
  BY <1>2, <1>3
<1>5. /\ r.src[1] = c.src[1] /\ r.dst[1] = c.dst[1] /\ r.srcVm = c.srcVm /\ r.dstVm = c.dstVm
      /\ r.phase = c.phase /\ r.expected = c.expected
  BY DEF ResultOf
<1>9. Reports(rules, cases, r, o)
  BY <1>4, PublishedFacts
<1>6. CaseOK(config, c)
  BY TriedOK
<1>7. CASE config.mode # "controller-gateway"
  <2>1. PICK k \in DOMAIN G : c.src = G[k].src /\ c.dst = G[k].dst
    BY <1>5, <1>6 DEF CaseOK
  <2>2. Ordered(G[k].src, G[k].dst)
    BY <1>1, GeneratedFacts
  <2>3. G[k].src[2] # 0 /\ G[k].dst[2] # 0
    BY <2>2 DEF Ordered
  <2>4. r.src = c.src /\ r.dst = c.dst
    BY <1>7 DEF ResultOf
  <2>5. r.src[2] # 0 /\ r.dst[2] # 0
    BY <2>1, <2>3, <2>4
  <2>6. o.src = r.src /\ o.dst = r.dst
    BY <1>9, <2>5 DEF Reports
  <2> QED
    BY <2>1, <2>4, <2>6
<1>8. CASE config.mode = "controller-gateway"
  <2>1. r.src[2] = 0 /\ r.dst[2] = 0 /\ r.probe = "icmp"
    BY <1>8 DEF Bare
  <2>2. c.probe = "icmp"
    <3>1. c.phase.kind # "custom"
      BY <1>5 DEF Pairwise
    <3> QED
      BY <1>6, <3>1 DEF CaseOK, ProbeOf
  <2>3. PICK m \in DOMAIN cases : cases[m] = c
    BY <1>2, <1>8, TriedOK
  <2>4. CaseKey(cases[m]) = CaseKey(r)
    BY <1>5, <2>1, <2>2, <2>3 DEF CaseKey
  <2>5. \E k \in DOMAIN cases : /\ CaseKey(cases[k]) = CaseKey(r)
                                /\ o.src = <<r.src[1], cases[k].src[2]>>
                                /\ o.dst = <<r.dst[1], cases[k].dst[2]>>
    BY <1>9, <2>1, <2>4 DEF Reports
  <2>6. PICK l \in DOMAIN cases : /\ CaseKey(cases[l]) = CaseKey(r)
                                 /\ o.src = <<r.src[1], cases[l].src[2]>>
                                 /\ o.dst = <<r.dst[1], cases[l].dst[2]>>
    BY <2>5
  <2>7. PICK x \in CaseSet : x = cases[l]
    OBVIOUS
  <2>8. x.src[1] = r.src[1] /\ x.dst[1] = r.dst[1] /\ x.phase = r.phase
    BY <2>6, <2>7 DEF CaseKey
  <2>12. x.src \in Nat \X Nat /\ x.dst \in Nat \X Nat
    BY DEF CaseSet
  <2>9. x.src = <<x.src[1], x.src[2]>> /\ x.dst = <<x.dst[1], x.dst[2]>>
    BY <2>12
  <2>10. o.src = x.src /\ o.dst = x.dst
    BY <2>6, <2>7, <2>8, <2>9
  <2>11. CaseOK(config, x)
    BY <1>2, <2>7
  <2> QED
    BY <2>8, <2>10, <2>11 DEF CaseOK
<1> QED
  BY <1>7, <1>8

LEMMA SeenOfInv ==
  Inv /\ ResultsAreBare => CasesAreSeenOnce
<1> SUFFICES ASSUME Inv, ResultsAreBare, config.phased => config.mode # "controller-gateway"
             PROVE  ResultOfARun(Report) /\ EachCaseOnce(ProcessResult(Report))
  BY DEF CasesAreSeenOnce
<1>1. config \in Configs /\ ConfigOK(config) /\ config.rows \in Seq(NetRows) /\ results \in Seq(ResultSet)
  BY ConfigFacts DEF Inv, TypeOK, ConfigOK
<1>2. PICK R : R = Report
  OBVIOUS
<1>3. PICK n \in Nat : DOMAIN results = 1..n
  BY <1>1
<1>4. PICK cases \in Seq(CaseSet) : cases = CasesOf(config)
  BY <1>1, CasesOfRun
<1>5. PICK rules : rules = config.rules
  OBVIOUS
<1> DEFINE o(i) == Published(rules, WithClusters(cases, results[i]))
<1>6. /\ R.provisioned = config.rows /\ R.skipped = <<>>
      /\ R.outcomes = [i \in DOMAIN results |-> o(i)]
  BY <1>2, <1>4, <1>5 DEF Report
<1>7. ASSUME NEW i \in DOMAIN results
      PROVE  /\ o(i).phase \in Phases /\ {"src", "dst", "phase"} \subseteq DOMAIN o(i)
             /\ o(i).phase.kind \in Pairwise =>
                  \E k \in DOMAIN GenerateTestCases(config.rows) :
                    /\ o(i).src = GenerateTestCases(config.rows)[k].src
                    /\ o(i).dst = GenerateTestCases(config.rows)[k].dst
  <2>1. PICK r \in ResultSet : r = results[i]
    BY <1>1
  <2>2. PICK p : p = Published(rules, WithClusters(cases, r))
    OBVIOUS
  <2>3. p = o(i)
    BY <2>1, <2>2
  <2> HIDE DEF o
  <2>9. Reports(rules, cases, r, p)
    BY <2>2, PublishedFacts
  <2>4. p.phase = r.phase
    BY <2>9 DEF Reports
  <2>5. {"src", "dst", "phase"} \subseteq DOMAIN p
    BY <2>9 DEF Reports
  <2>6. r.phase \in Phases
    BY DEF ResultSet
  <2>7. PICK G : G = GenerateTestCases(config.rows)
    OBVIOUS
  <2>8. ASSUME r.phase.kind \in Pairwise PROVE \E k \in DOMAIN G : p.src = G[k].src /\ p.dst = G[k].dst
    <3>1. PICK c \in Tried : ResultOf(r, c)
      BY <2>1 DEF Inv, ResultsAreKnown
    <3>2. config.mode = "controller-gateway" => Bare(r)
      BY <2>1 DEF ResultsAreBare
    <3>3. p = Published(config.rules, WithClusters(CasesOf(config), r))
      BY <1>4, <1>5, <2>2
    <3> QED
      BY <2>7, <2>8, <3>1, <3>2, <3>3, OutcomeOfPair
  <2> QED
    BY <2>3, <2>4, <2>5, <2>6, <2>7, <2>8
<1> HIDE DEF o
<1>8. /\ DOMAIN R.outcomes = 1..n /\ \A i \in 1..n : R.outcomes[i] = o(i)
  BY <1>3, <1>6
<1>9. Len(R.outcomes) \in Nat /\ DOMAIN R.outcomes = 1..Len(R.outcomes)
  <2>1. PICK D : D = {o(i) : i \in 1..n}
    OBVIOUS
  <2>2. R.outcomes \in [1..n -> D]
    BY <1>3, <1>6, <2>1
  <2>3. R.outcomes \in Seq(D)
    BY <2>2
  <2> QED
    BY <2>3
<1>10. R.provisioned \in Seq(NetRows) /\ R.skipped \in Seq(NetRows)
  <2>1. <<>> \in Seq(NetRows)
    OBVIOUS
  <2> QED
    BY <1>1, <1>6, <2>1
<1>11. ResultOfARun(R)
  BY <1>3, <1>6, <1>7, <1>8, <1>9, <1>10 DEF ResultOfARun
<1>12. \A i \in DOMAIN R.outcomes : {"src", "dst", "phase"} \subseteq DOMAIN R.outcomes[i]
  BY <1>3, <1>7, <1>8
<1>13. EachCaseOnce(ProcessResult(R))
  BY <1>11, <1>12, SeenOnce
<1> QED
  BY <1>2, <1>11, <1>13

\* What a run reports of a pair of rows is seen in one cell of one matrix, for all rows, rules,
\* suites and findings, unless phases were checked from the controller.
THEOREM SeenInOneCell ==
  Spec => []CasesAreSeenOnce
<1>1. Init => ResultsAreBare
  <2> SUFFICES ASSUME Init PROVE ResultsAreBare
    OBVIOUS
  <2>1. results = <<>> /\ DOMAIN <<>> = {}
    BY DEF Init
  <2> QED
    BY <2>1 DEF ResultsAreBare
<1> QED
  BY <1>1, NextBare, SeenOfInv, Invariance, PTL DEF Spec

(***************************************************************************)
(* When batches drop nothing                                               *)
(***************************************************************************)

\* The subnets of cases are those that one of their ends is in.
LEMMA SubnetsFound ==
  ASSUME NEW cases \in Seq(CaseSet)
  PROVE  /\ \A k \in DOMAIN cases : \E i, j \in DOMAIN SubnetsOf(cases) :
              SubnetsOf(cases)[i] = cases[k].src[1] /\ SubnetsOf(cases)[j] = cases[k].dst[1]
         /\ \A i \in DOMAIN SubnetsOf(cases) : \E k \in DOMAIN cases :
              SubnetsOf(cases)[i] \in {cases[k].src[1], cases[k].dst[1]}
<1>1. PICK n \in Nat : n = Len(cases) /\ DOMAIN cases = 1..n
  OBVIOUS
<1> DEFINE subnet(k) == IF k % 2 = 1 THEN cases[(k + 1) \div 2].src[1] ELSE cases[k \div 2].dst[1]
<1>2. ASSUME NEW k \in 1..(2 * n)
      PROVE  \E m \in 1..n : subnet(k) \in {cases[m].src[1], cases[m].dst[1]}
  <2>1. k % 2 = 1 => (k + 1) \div 2 \in 1..n
    BY <1>1
  <2>2. k % 2 # 1 => k \div 2 \in 1..n
    BY <1>1
  <2> QED
    BY <2>1, <2>2
<1>3. ASSUME NEW m \in 1..n
      PROVE  /\ 2 * m - 1 \in 1..(2 * n) /\ subnet(2 * m - 1) = cases[m].src[1]
             /\ 2 * m \in 1..(2 * n) /\ subnet(2 * m) = cases[m].dst[1]
  <2>1. (2 * m - 1) % 2 = 1 /\ (2 * m - 1 + 1) \div 2 = m /\ 2 * m - 1 \in 1..(2 * n)
    OBVIOUS
  <2>2. (2 * m) % 2 = 0 /\ (2 * m) \div 2 = m /\ 2 * m \in 1..(2 * n)
    OBVIOUS
  <2> QED
    BY <2>1, <2>2
<1>4. PICK list : list = [k \in 1..(2 * n) |-> subnet(k)]
  OBVIOUS
<1>5. PICK seen : seen = Distinct(list)
  OBVIOUS
<1>6. SubnetsOf(cases) = seen
  BY <1>1, <1>4, <1>5 DEF SubnetsOf
<1> HIDE DEF subnet
<1>7. PICK T : T = {subnet(k) : k \in 1..(2 * n)}
  OBVIOUS
<1>8. list \in Seq(T) /\ DOMAIN list = 1..(2 * n) /\ \A k \in 1..(2 * n) : list[k] = subnet(k)
  <2>1. list \in [1..(2 * n) -> T] /\ \A k \in 1..(2 * n) : list[k] = subnet(k)
    BY <1>4, <1>7
  <2>2. 2 * n \in Nat
    BY <1>1
  <2>3. list \in Seq(T)
    BY <2>1, <2>2, FunctionIsSeq
  <2> QED
    BY <2>1, <2>3
<1>9. /\ seen \in Seq(T)
      /\ \A i \in DOMAIN list : \E k \in 1..Len(seen) : seen[k] = list[i]
      /\ \A k \in 1..Len(seen) : \E i \in DOMAIN list : seen[k] = list[i]
  <2>1. list \in Seq(T)
    BY <1>8
  <2>2. Distinct(list) \in Seq(T)
    BY <2>1, DistinctFacts
  <2>3. \A i \in DOMAIN list : \E k \in 1..Len(Distinct(list)) : Distinct(list)[k] = list[i]
    BY <2>1, DistinctHas
  <2>4. \A k \in 1..Len(Distinct(list)) : \E i \in DOMAIN list :
          Distinct(list)[k] = list[i] /\ \A h \in 1..(i - 1) : list[h] # list[i]
    BY <2>1, DistinctFacts
  <2> QED
    BY <1>5, <2>2, <2>3, <2>4
<1>10. DOMAIN seen = 1..Len(seen)
  BY <1>9
<1>11. ASSUME NEW m \in DOMAIN cases
       PROVE  \E i, j \in DOMAIN seen : seen[i] = cases[m].src[1] /\ seen[j] = cases[m].dst[1]
  <2>1. PICK p, q \in DOMAIN list : list[p] = cases[m].src[1] /\ list[q] = cases[m].dst[1]
    <3>1. PICK a, b \in 1..(2 * n) : subnet(a) = cases[m].src[1] /\ subnet(b) = cases[m].dst[1]
      <4>1. m \in 1..n
        BY <1>1
      <4> QED
        BY <1>3, <4>1
    <3>2. list[a] = subnet(a) /\ list[b] = subnet(b)
      BY <1>8
    <3> QED
      BY <1>8, <3>1, <3>2
  <2>2. PICK i \in DOMAIN seen : seen[i] = list[p]
    BY <1>9, <1>10
  <2>3. PICK j \in DOMAIN seen : seen[j] = list[q]
    BY <1>9, <1>10
  <2> QED
    BY <2>1, <2>2, <2>3
<1>12. ASSUME NEW i \in DOMAIN seen
       PROVE  \E k \in DOMAIN cases : seen[i] \in {cases[k].src[1], cases[k].dst[1]}
  <2>1. PICK k \in 1..(2 * n) : seen[i] = subnet(k)
    BY <1>8, <1>9, <1>10
  <2> QED
    BY <1>1, <1>2, <2>1
<1> QED
  BY <1>6, <1>11, <1>12

\* As many numbers as places, at least one: they need one batch.
LEMMA OneBatchSuffices ==
  ASSUME NEW n \in Nat \ {0}, NEW size \in Nat \ {0}, n <= size
  PROVE  (n + size - 1) \div size = 1
<1>1. PICK q \in Int : q = (n + size - 1) \div size
  OBVIOUS
<1>2. q * size <= n + size - 1 /\ n + size - 1 < q * size + size
  BY <1>1
<1>3. q >= 1
  <2>1. CASE q <= 0
    <3>1. q * size <= 0
      BY <2>1
    <3> QED
      BY <1>2, <3>1
  <2> QED
    BY <2>1
<1>4. q < 2
  <2>1. CASE q >= 2
    <3>1. PICK d \in Nat : q = 2 + d
      <4>1. q - 2 \in Nat /\ q = 2 + (q - 2)
        BY <2>1
      <4> QED
        BY <4>1
    <3>2. q * size = 2 * size + d * size /\ d * size \in Nat
      BY <3>1
    <3> QED
      BY <1>2, <3>2
  <2> QED
    BY <2>1
<1> QED
  BY <1>1, <1>3, <1>4

\* Cases whose subnets are all in the first batch are all in the first phase.
LEMMA AllInOneBatch ==
  ASSUME NEW cases \in Seq(CaseSet), NEW maxVms \in Nat, Len(SubnetsOf(cases)) <= maxVms,
         NEW k \in DOMAIN cases
  PROVE  \E n \in DOMAIN BatchPhase(cases, 1, maxVms) : cases[k] \in Elements(BatchPhase(cases, 1, maxVms)[n])
<1>1. PICK seen : seen = SubnetsOf(cases)
  OBVIOUS
<1>2. seen \in Seq(Nat) /\ Len(seen) \in Nat /\ DOMAIN seen = 1..Len(seen)
  <2>1. seen \in Seq(Nat)
    BY <1>1, SubnetsOfFacts
  <2> QED
    BY <2>1
<1>3. \A m \in DOMAIN cases : \E i, j \in DOMAIN seen : seen[i] = cases[m].src[1] /\ seen[j] = cases[m].dst[1]
  BY <1>1, SubnetsFound
<1>4. Len(seen) \in Nat \ {0} /\ Len(seen) <= maxVms
  BY <1>1, <1>2, <1>3
<1>5. MaxSubnets(1, maxVms) = maxVms
  <2>1. Larger(1, 1) = 1 /\ maxVms \div 1 = maxVms /\ Larger(1, maxVms) = maxVms
    BY <1>4 DEF Larger
  <2> QED
    BY <2>1 DEF MaxSubnets
<1>6. (Len(seen) + maxVms - 1) \div maxVms = 1
  BY <1>4, OneBatchSuffices
<1>7. \A i \in DOMAIN seen : seen[i] \in BatchSubnets(seen, maxVms, 1)
  <2>1. \A i \in DOMAIN seen : (1 - 1) * maxVms < i /\ i <= 1 * maxVms
    BY <1>2, <1>4
  <2> QED
    BY <2>1 DEF BatchSubnets
<1> DEFINE of(b) == {m \in DOMAIN cases : {cases[m].src[1], cases[m].dst[1]} \subseteq BatchSubnets(seen, maxVms, b)}
<1>8. of(1) = DOMAIN cases
  BY <1>3, <1>7
<1>9. \A b \in {1} : of(b) = DOMAIN cases
  BY <1>8
<1>10. PICK all : all = [b \in 1..1 |-> Kept(cases, of(b))]
  OBVIOUS
<1>11. BatchPhase(cases, 1, maxVms) = Kept(all, {b \in DOMAIN all : all[b] # <<>>})
  BY <1>1, <1>5, <1>6, <1>10 DEF BatchPhase
<1> HIDE DEF of
<1>12. DOMAIN all = 1..1 /\ all[1] = Kept(cases, DOMAIN cases)
  BY <1>9, <1>10
<1>13. cases[k] \in Elements(all[1])
  BY <1>12, KeptElements
<1>14. PICK S : S = {b \in DOMAIN all : all[b] # <<>>}
  OBVIOUS
<1>15. 1 \in S /\ S \in SUBSET DOMAIN all
  <2>1. all[1] # <<>>
    BY <1>13, EmptyElements
  <2> QED
    BY <1>12, <1>14, <2>1
<1>16. PICK T : T = {all[1]}
  OBVIOUS
<1>17. all \in Seq(T)
  <2>1. all \in [1..1 -> T]
    BY <1>10, <1>12, <1>16
  <2>2. 1 \in Nat
    OBVIOUS
  <2> QED
    BY <2>1, <2>2, FunctionIsSeq
<1>18. PICK B : B = Kept(all, S)
  OBVIOUS
<1>19. DOMAIN B = 1..Cardinality(S) /\ \E n \in 1..Cardinality(S) : B[n] = all[1]
  BY <1>15, <1>17, <1>18, KeptFacts
<1> QED
  BY <1>11, <1>13, <1>14, <1>18, <1>19

\* The ends of pairs are in subnets of rows.
LEMMA PairSubnets ==
  ASSUME NEW c, ConfigOK(c), NEW passSet, NEW k \in DOMAIN PairCases(c.rows, passSet)
  PROVE  /\ PairCases(c.rows, passSet)[k].src[1] \in Subnets(c)
         /\ PairCases(c.rows, passSet)[k].dst[1] \in Subnets(c)
<1>1. PICK rows \in Seq(NetRows) : rows = c.rows
  BY DEF ConfigOK
<1>2. PICK sorted : sorted = PolicySort(rows)
  OBVIOUS
<1>3. PICK pairs : pairs = Combinations(sorted)
  OBVIOUS
<1>4. /\ DOMAIN PairCases(rows, passSet) = DOMAIN pairs
      /\ \A m \in DOMAIN pairs : /\ PairCases(rows, passSet)[m].src = Endpoint(sorted[pairs[m][1]])
                                 /\ PairCases(rows, passSet)[m].dst = Endpoint(sorted[pairs[m][2]])
  BY <1>2, <1>3 DEF PairCases, Case
<1>5. pairs[k][1] \in DOMAIN sorted /\ pairs[k][2] \in DOMAIN sorted
  BY <1>1, <1>2, <1>3, <1>4, EndpointsOrdered
<1>6. \A i \in DOMAIN sorted : sorted[i].subnet \in Subnets(c)
  <2>1. \A i \in DOMAIN sorted : \E j \in DOMAIN rows : sorted[i] = rows[j]
    BY <1>2, PolicySortFacts
  <2> QED
    BY <1>1, <2>1 DEF Subnets
<1>7. \A i \in DOMAIN sorted : Endpoint(sorted[i])[1] = sorted[i].subnet
  BY DEF Endpoint
<1> QED
  BY <1>1, <1>4, <1>5, <1>6, <1>7

\* A list has the elements of another.
Within(X, Y) == \A n \in DOMAIN X : \E m \in DOMAIN Y : Y[m] = X[n]

\* Lists joined have those of each.
LEMMA JoinedElements ==
  ASSUME NEW U, NEW I \in Seq(U), NEW V \in Seq(U), NEW A \in Seq(U), NEW F \in Seq(U),
         NEW B, B = V \/ B = A \/ B = F, NEW joined, joined = I \o V \o A \o F
  PROVE  Within(B, joined)
<1> SUFFICES ASSUME NEW n \in DOMAIN B
             PROVE  \E m \in DOMAIN joined : joined[m] = B[n]
  BY DEF Within
<1>1. DOMAIN joined = 1..(Len(I) + Len(V) + Len(A) + Len(F))
  OBVIOUS
<1>2. CASE B = V
  <2>1. Len(I) + n \in DOMAIN joined /\ joined[Len(I) + n] = V[n]
    BY <1>1, <1>2
  <2> QED
    BY <1>2, <2>1
<1>3. CASE B = A
  <2>1. Len(I) + Len(V) + n \in DOMAIN joined /\ joined[Len(I) + Len(V) + n] = A[n]
    BY <1>1, <1>3
  <2> QED
    BY <1>3, <2>1
<1>4. CASE B = F
  <2>1. Len(I) + Len(V) + Len(A) + n \in DOMAIN joined /\ joined[Len(I) + Len(V) + Len(A) + n] = F[n]
    BY <1>1, <1>4
  <2> QED
    BY <1>4, <2>1
<1> QED
  BY <1>2, <1>3, <1>4

\* Then every pair of a kind that is enabled is in a phase.
LEMMA PairsInPhases ==
  ASSUME NEW c, ConfigOK(c), Cardinality(Subnets(c)) <= c.maxVms,
         NEW x \in Elements(PairCases(c.rows, PassSet(c.links))), x.phase.kind \in c.enabled
  PROVE  \E n \in DOMAIN PhasesOf(c) : x \in Elements(PhasesOf(c)[n])
<1>1. PICK pairs : pairs = PairCases(c.rows, PassSet(c.links))
  OBVIOUS
<1>2. pairs \in Seq(CaseSet)
  BY <1>1, PairsOK
<1>3. \A k \in DOMAIN pairs : /\ pairs[k].src[1] \in Subnets(c) /\ pairs[k].dst[1] \in Subnets(c)
                              /\ pairs[k].phase.kind \in Pairwise \ {"network"}
  <2>1. c.rows \in Seq(NetRows)
    BY DEF ConfigOK
  <2>2. \A k \in DOMAIN pairs : pairs[k].phase.kind \in Pairwise \ {"network"}
    BY <1>1, <2>1, PairCasesFacts
  <2> QED
    BY <1>1, <2>2, PairSubnets
<1>4. PICK place \in DOMAIN pairs : x = pairs[place]
  BY <1>1 DEF Elements
<1>5. PICK kind : kind = x.phase.kind
  OBVIOUS
<1>6. PICK S : S = {k \in DOMAIN pairs : pairs[k].phase.kind = kind}
  OBVIOUS
<1>7. PICK cases : cases = Kept(pairs, S)
  OBVIOUS
<1>8. cases \in Seq(CaseSet) /\ \A k \in DOMAIN cases : \E m \in S : cases[k] = pairs[m]
  <2>1. S \in SUBSET DOMAIN pairs
    BY <1>6
  <2>2. cases \in Seq(CaseSet) /\ DOMAIN cases = 1..Cardinality(S)
    BY <1>2, <1>7, <2>1, KeptFacts
  <2>3. \A k \in 1..Cardinality(S) : InOrder(S)[k] \in S /\ cases[k] = pairs[InOrder(S)[k]]
    BY <1>2, <1>7, <2>1, KeptFacts
  <2> QED
    BY <2>2, <2>3
<1>9. PICK k \in DOMAIN cases : x = cases[k]
  <2>1. S \in SUBSET DOMAIN pairs /\ place \in S
    BY <1>4, <1>5, <1>6
  <2>2. x \in Elements(cases)
    BY <1>2, <1>4, <1>7, <2>1, KeptElements
  <2> QED
    BY <2>2 DEF Elements
<1>10. PICK seen : seen = SubnetsOf(cases)
  OBVIOUS
<1>11. Len(seen) <= c.maxVms
  <2>1. PICK T : T = Subnets(c)
    OBVIOUS
  <2>2. IsFiniteSet(T)
    <3>1. PICK rows \in Seq(NetRows) : rows = c.rows
      BY DEF ConfigOK
    <3>2. PICK D : D = DOMAIN rows
      OBVIOUS
    <3>3. IsFiniteSet(D)
      BY <3>1, <3>2, DomainFinite
    <3>4. PICK f : f = [i \in D |-> rows[i].subnet]
      OBVIOUS
    <3>5. T = {f[i] : i \in D}
      BY <2>1, <3>1, <3>2, <3>4 DEF Subnets
    <3>6. f \in Surjection(D, T)
      BY <3>4, <3>5 DEF Surjection
    <3> QED
      BY <3>3, <3>6, FS_Surjection
  <2>3. \A i \in DOMAIN seen : seen[i] \in T
    <3>1. \A m \in DOMAIN cases : cases[m].src[1] \in T /\ cases[m].dst[1] \in T
      BY <1>3, <1>6, <1>8, <2>1
    <3>2. \A i \in DOMAIN seen : \E m \in DOMAIN cases : seen[i] \in {cases[m].src[1], cases[m].dst[1]}
      BY <1>8, <1>10, SubnetsFound
    <3> QED
      BY <3>1, <3>2
  <2>4. seen \in Seq(Nat) /\ \A i, j \in DOMAIN seen : seen[i] = seen[j] => i = j
    BY <1>8, <1>10, SubnetsOfFacts
  <2>5. Len(seen) \in Nat /\ DOMAIN seen = 1..Len(seen) /\ seen = [i \in DOMAIN seen |-> seen[i]]
    BY <2>4
  <2>6. seen \in Injection(1..Len(seen), T)
    BY <2>3, <2>4, <2>5 DEF Injection, IsInjective
  <2>7. IsFiniteSet(1..Len(seen)) /\ Cardinality(1..Len(seen)) = Len(seen)
    <3>1. 1 \in Int /\ Len(seen) \in Int /\ (1 > Len(seen) => Len(seen) = 0) /\ Len(seen) - 1 + 1 = Len(seen)
      BY <2>5
    <3> QED
      BY <3>1, FS_Interval
  <2>8. Cardinality(1..Len(seen)) <= Cardinality(T)
    BY <2>2, <2>6, FS_Injection
  <2>9. Cardinality(T) \in Nat /\ c.maxVms \in Nat
    BY <2>2, FS_CardinalityType DEF ConfigOK
  <2> QED
    BY <2>1, <2>5, <2>7, <2>8, <2>9
<1>12. PICK B : B = BatchPhase(cases, 1, c.maxVms)
  OBVIOUS
<1>13. \E n \in DOMAIN B : x \in Elements(B[n])
  BY <1>8, <1>9, <1>10, <1>11, <1>12, AllInOneBatch DEF ConfigOK
<1> DEFINE pairPhases(k2) == IF k2 \in c.enabled
                             THEN BatchPhase(Kept(pairs, {m \in DOMAIN pairs : pairs[m].phase.kind = k2}), 1, c.maxVms)
                             ELSE <<>>
<1>14. pairPhases(kind) = B
  BY <1>5, <1>6, <1>7, <1>12
<1> DEFINE intra == IF "intra-subnet" \in c.enabled THEN BatchPhase(IntraCases(c.rows, c.vms), c.vms, c.maxVms)
                    ELSE <<>>
<1>15. PhasesOf(c) = intra \o pairPhases("intra-vrf") \o pairPhases("cross-vrf-allowlist")
                       \o pairPhases("cross-vrf-block")
  BY <1>1 DEF PhasesOf, GeneratePhasedCases
<1>16. PICK U : U = Seq(CaseSet)
  OBVIOUS
<1>17. intra \in Seq(U)
  <2>1. <<>> \in Seq(U)
    OBVIOUS
  <2>2. BatchPhase(IntraCases(c.rows, c.vms), c.vms, c.maxVms) \in Seq(U)
    BY <1>16, IntraCasesFacts, BatchPhaseFacts DEF ConfigOK
  <2> QED
    BY <2>1, <2>2
<1>18. ASSUME NEW k2 PROVE pairPhases(k2) \in Seq(U)
  <2>1. <<>> \in Seq(U)
    OBVIOUS
  <2>2. PICK R : R = {m \in DOMAIN pairs : pairs[m].phase.kind = k2}
    OBVIOUS
  <2>3. R \in SUBSET DOMAIN pairs
    BY <2>2
  <2>4. Kept(pairs, R) \in Seq(CaseSet)
    BY <1>2, <2>3, KeptFacts
  <2>5. BatchPhase(Kept(pairs, R), 1, c.maxVms) \in Seq(U)
    <3>1. PICK maxVms \in Nat : maxVms = c.maxVms
      BY DEF ConfigOK
    <3>2. PICK some \in Seq(CaseSet) : some = Kept(pairs, R)
      BY <2>4
    <3>3. 1 \in Nat \ {0}
      OBVIOUS
    <3>4. BatchPhase(some, 1, maxVms) \in Seq(Seq(CaseSet))
      BY <3>3, BatchPhaseFacts
    <3> QED
      BY <1>16, <3>1, <3>2, <3>4
  <2> QED
    BY <2>1, <2>2, <2>5
<1>19. PICK I, V, A, F : /\ I = intra /\ V = pairPhases("intra-vrf") /\ A = pairPhases("cross-vrf-allowlist")
                         /\ F = pairPhases("cross-vrf-block")
  OBVIOUS
<1>20. I \in Seq(U) /\ V \in Seq(U) /\ A \in Seq(U) /\ F \in Seq(U) /\ PhasesOf(c) = I \o V \o A \o F
  BY <1>15, <1>17, <1>18, <1>19
<1>21. B = V \/ B = A \/ B = F
  BY <1>3, <1>4, <1>5, <1>14, <1>19 DEF Pairwise
<1> HIDE DEF intra, pairPhases
<1>22. Within(B, PhasesOf(c))
  <2>1. PICK joined : joined = PhasesOf(c)
    OBVIOUS
  <2>2. Within(B, joined)
    BY <1>20, <1>21, <2>1, JoinedElements
  <2> QED
    BY <2>1, <2>2
<1>23. PICK n \in DOMAIN B : x \in Elements(B[n])
  BY <1>13
<1>24. \E m \in DOMAIN PhasesOf(c) : PhasesOf(c)[m] = B[n]
  BY <1>22, <1>23 DEF Within
<1> QED
  BY <1>23, <1>24

\* With no more subnets than a phase may have VMs, nothing is dropped: a run in phases that
\* passed has run every case of its kinds.  Batching refutes it for more subnets.
THEOREM NothingDropped ==
  ASSUME \A c \in Configs : c.phased => Cardinality(Subnets(c)) <= c.maxVms
  PROVE  Spec => []NoCaseIsDropped
<1>1. Inv => NoCaseIsDropped
  <2> SUFFICES ASSUME Inv, pc = "done", config.phased, FinalStatus = "PASS",
                      NEW c \in Elements(PairCases(config.rows, PassSet(config.links))),
                      c.phase.kind \in config.enabled
               PROVE  c \in DOMAIN last
    BY DEF NoCaseIsDropped
  <2>1. config \in Configs
    BY DEF Inv, TypeOK
  <2>2. ConfigOK(config)
    BY <2>1, ConfigFacts
  <2>3. \E n \in DOMAIN PhasesOf(config) : c \in Elements(PhasesOf(config)[n])
    BY <2>1, <2>2, PairsInPhases
  <2>4. c \in Planned
    BY <2>3 DEF Planned
  <2> QED
    BY <2>4, PassOfInv DEF PassIsDeserved
<1> QED
  BY <1>1, Invariance, PTL
===============================================================================
