---------------------------- MODULE NetworksProofs ----------------------------
(***************************************************************************)
(* What the merge of NetworkMerge does to any table under any inventory,   *)
(* and proofs that the page of NetworksPage keeps its types, offers the    *)
(* portgroups of the inventory synced last, and loses no row in a sync;    *)
(* and that syncing twice is syncing once where no two portgroups of a     *)
(* place share a VLAN.                                                     *)
(***************************************************************************)
EXTENDS NetworksPage, SublistProofs

\* Rows of the table without their lists, and rows made from an inventory.
BareRows == [place : Places \cup {Blank}, pg : Portgroups \cup {Blank}, vlan : Vlans \cup {Blank},
             data : Data \cup {Blank}, id : Nat]
FoundRows == [place : Places, pg : Portgroups \cup {Blank}, vlan : Vlans \cup {Blank},
              data : {Blank}, id : {0}]

-----------------------------------------------------------------------------
(***************************************************************************)
(* The best match                                                          *)
(***************************************************************************)

LEMMA FoundTyped ==
  ASSUME NEW inv \in Seq(InventoryEntries)
  PROVE  /\ RowsFromInventory(inv) \in Seq(FoundRows)
         /\ DOMAIN RowsFromInventory(inv) = DOMAIN inv
         /\ Len(RowsFromInventory(inv)) = Len(inv)
<1>1. DOMAIN inv = 1..Len(inv) /\ Len(inv) \in Nat
  OBVIOUS
<1>2. ASSUME NEW i \in 1..Len(inv)
      PROVE  Row(inv[i].place, inv[i].pg, IF inv[i].vlan = Untagged THEN Blank ELSE inv[i].vlan, Blank, 0)
               \in FoundRows
  <2>1. inv[i] \in InventoryEntries
    BY <1>1, <1>2
  <2> QED
    BY <2>1 DEF InventoryEntries, FoundRows, Row
<1>3. RowsFromInventory(inv) \in [1..Len(inv) -> FoundRows]
  BY <1>1, <1>2 DEF RowsFromInventory
<1> QED
  BY <1>1, <1>3

LEMMA LeastFacts ==
  ASSUME NEW n \in Nat, NEW S \in SUBSET (0..n), S # {}
  PROVE  Least(S) \in S /\ \A y \in S : Least(S) <= y
<1>1. IsFiniteSet(0..n)
  BY FS_Interval
<1>2. IsFiniteSet(S) /\ S \in SUBSET Int
  <2>1. \A x \in S : x \in Int
    OBVIOUS
  <2>2. IsFiniteSet(S)
    BY <1>1, FS_Subset
  <2> QED
    BY <2>1, <2>2
<1>3. Cardinality(S) \in Nat /\ Cardinality(S) # 0
  BY <1>2, FS_CardinalityType, FS_EmptySet
<1>4. 0 \in 0..Cardinality(S) - 1
  BY <1>3
<1>5. PICK x \in S : Rank(S, x) = 0
  BY <1>2, <1>4, RankReached
<1>6. {m \in S : m < x} = {}
  <2>1. IsFiniteSet({m \in S : m < x})
    BY <1>2, FS_Subset
  <2> QED
    BY <1>5, <2>1, FS_EmptySet DEF Rank
<1>7. \A y \in S : x <= y
  BY <1>6
<1> QED
  BY <1>7 DEF Least

LEMMA KeysListed ==
  /\ DOMAIN MatchKeys = 1..4
  /\ MatchKeys[1] = {"place", "pg", "vlan"} /\ MatchKeys[2] = {"place", "vlan"}
  /\ MatchKeys[3] = {"place", "pg"} /\ MatchKeys[4] = {"place"}
BY DEF MatchKeys

\* A row matches at the first level that has a candidate, and is the first of them there.
LEMMA BestMatchFacts ==
  ASSUME NEW existing \in Seq(BareRows), NEW used, NEW row
  PROVE  /\ BestMatch(existing, used, row) \in 0..Len(existing)
         /\ BestMatch(existing, used, row) = 0 =>
              \A l \in 1..4 : Candidates(existing, used, row, MatchKeys[l]) = {}
         /\ BestMatch(existing, used, row) # 0 =>
              \E level \in 1..4 :
                /\ BestMatch(existing, used, row) \in Candidates(existing, used, row, MatchKeys[level])
                /\ \A y \in Candidates(existing, used, row, MatchKeys[level]) :
                     BestMatch(existing, used, row) <= y
                /\ \A l \in 1..4 : l < level => Candidates(existing, used, row, MatchKeys[l]) = {}
<1> DEFINE at(l) == Candidates(existing, used, row, MatchKeys[l])
           found == {l \in 1..4 : at(l) # {}}
           best == BestMatch(existing, used, row)
<1>1. DOMAIN existing = 1..Len(existing) /\ Len(existing) \in Nat
  OBVIOUS
<1>2. \A l \in 1..4 : at(l) \in SUBSET (0..Len(existing)) /\ at(l) \in SUBSET (1..Len(existing))
  BY <1>1 DEF Candidates
<1>3. best = IF found = {} THEN 0 ELSE Least(at(Least(found)))
  BY KeysListed DEF BestMatch
<1> HIDE DEF at
<1>4. found \in SUBSET (0..4)
  OBVIOUS
<1>5. CASE found = {}
  <2>1. best = 0 /\ \A l \in 1..4 : at(l) = {}
    BY <1>3, <1>5
  <2> HIDE DEF best
  <2>2. best \in 0..Len(existing)
    BY <1>1, <2>1
  <2> QED
    BY <2>1, <2>2 DEF best, at
<1>6. CASE found # {}
  <2>1. Least(found) \in found /\ \A l \in found : Least(found) <= l
    BY <1>4, <1>6, LeastFacts
  <2>2. PICK level \in 1..4 : level = Least(found) /\ at(level) # {}
    BY <2>1
  <2>3. Least(at(level)) \in at(level) /\ \A y \in at(level) : Least(at(level)) <= y
    BY <1>1, <1>2, <2>2, LeastFacts
  <2>4. best = Least(at(level))
    BY <1>3, <1>6, <2>2
  <2>5. \A l \in 1..4 : l < level => at(l) = {}
    <3> SUFFICES ASSUME NEW l \in 1..4, l < level, at(l) # {} PROVE FALSE
      OBVIOUS
    <3>1. l \in found
      OBVIOUS
    <3> HIDE DEF found
    <3> QED
      BY <2>1, <2>2, <3>1
  <2> HIDE DEF best, found
  <2>6. best \in 1..Len(existing) /\ best \in at(level) /\ \A y \in at(level) : best <= y
    BY <1>2, <2>3, <2>4
  <2>7. best \in 0..Len(existing) /\ best # 0
    BY <1>1, <2>6
  <2> QED
    BY <2>5, <2>6, <2>7 DEF best, at
<1> QED
  BY <1>5, <1>6

\* The same, of rows of which one is known to come first.
LEMMA BestMatchIs ==
  ASSUME NEW existing \in Seq(BareRows), NEW used, NEW row,
         NEW b \in DOMAIN existing, NEW level \in 1..4,
         b \in Candidates(existing, used, row, MatchKeys[level]),
         \A y \in DOMAIN existing \ used : b <= y,
         \A l \in 1..4 : l < level => Candidates(existing, used, row, MatchKeys[l]) = {}
  PROVE  BestMatch(existing, used, row) = b
<1> DEFINE best == BestMatch(existing, used, row)
<1>1. DOMAIN existing = 1..Len(existing) /\ Len(existing) \in Nat
  OBVIOUS
<1>2. best \in 0..Len(existing) /\ best # 0
  <2>1. best = 0 => Candidates(existing, used, row, MatchKeys[level]) = {}
    BY BestMatchFacts
  <2>2. best \in 0..Len(existing)
    BY BestMatchFacts
  <2> QED
    BY <2>1, <2>2
<1>3. PICK l \in 1..4 :
        /\ best \in Candidates(existing, used, row, MatchKeys[l])
        /\ \A y \in Candidates(existing, used, row, MatchKeys[l]) : best <= y
        /\ \A k \in 1..4 : k < l => Candidates(existing, used, row, MatchKeys[k]) = {}
  BY <1>2, BestMatchFacts
<1>4. l = level
  BY <1>3
<1>5. best <= b /\ best \in DOMAIN existing \ used
  BY <1>3, <1>4 DEF Candidates
<1> HIDE DEF best
<1>6. best = b
  BY <1>1, <1>2, <1>5
<1> QED
  BY <1>6 DEF best

-----------------------------------------------------------------------------
(***************************************************************************)
(* The matching                                                            *)
(***************************************************************************)

\* Each row of the inventory has a best match once those before it have theirs: were there a
\* first number of rows without a matching, that of one row less could be extended.
LEMMA MatchingExists ==
  ASSUME NEW existing \in Seq(BareRows), NEW found \in Seq(FoundRows)
  PROVE  Matchings(existing, found) # {}
<1> DEFINE Matched(n) == \E m \in [1..n -> 0..Len(existing)] :
             \A k \in 1..n : m[k] = BestMatch(existing, Used(m, k), found[k])
           bad == {n \in 0..Len(found) : ~Matched(n)}
<1>1. DOMAIN found = 1..Len(found) /\ Len(found) \in Nat
  OBVIOUS
<1>2. Matched(0)
  <2>1. PICK m : m = [k \in 1..0 |-> 0]
    OBVIOUS
  <2>2. \A k \in 1..0 : FALSE
    OBVIOUS
  <2>3. m \in [1..0 -> 0..Len(existing)]
    BY <2>1, <2>2
  <2> QED
    BY <2>2, <2>3
<1>3. ASSUME NEW n \in Nat, n < Len(found), Matched(n) PROVE Matched(n + 1)
  <2>1. PICK m \in [1..n -> 0..Len(existing)] :
          \A k \in 1..n : m[k] = BestMatch(existing, Used(m, k), found[k])
    BY <1>3
  <2>2. PICK last \in 0..Len(existing) : last = BestMatch(existing, Used(m, n + 1), found[n + 1])
    BY BestMatchFacts
  <2>3. PICK longer : longer = [k \in 1..(n + 1) |-> IF k <= n THEN m[k] ELSE last]
    OBVIOUS
  <2>4. longer \in [1..(n + 1) -> 0..Len(existing)]
    BY <2>1, <2>2, <2>3
  <2>5. ASSUME NEW k \in 1..(n + 1) PROVE Used(longer, k) = Used(m, k)
    <3>1. \A j \in 1..(k - 1) : longer[j] = m[j]
      BY <2>3, <2>5
    <3> QED
      BY <3>1 DEF Used
  <2>6. ASSUME NEW k \in 1..(n + 1)
        PROVE  longer[k] = BestMatch(existing, Used(longer, k), found[k])
    <3>0. Used(longer, k) = Used(m, k)
      BY <2>5
    <3>1. CASE k \in 1..n
      <4>1. longer[k] = m[k]
        BY <2>3, <3>1
      <4> QED
        BY <2>1, <3>0, <3>1, <4>1
    <3>2. CASE k = n + 1
      <4>1. longer[k] = last
        BY <2>3, <3>2
      <4> QED
        BY <2>2, <3>0, <3>2, <4>1
    <3> QED
      BY <3>1, <3>2
  <2> QED
    BY <2>4, <2>6
<1>4. bad = {}
  <2> SUFFICES ASSUME bad # {} PROVE FALSE
    OBVIOUS
  <2>1. bad \in SUBSET (0..Len(found))
    OBVIOUS
  <2>2. Least(bad) \in bad /\ \A n \in bad : Least(bad) <= n
    BY <1>1, <2>1, LeastFacts
  <2>3. PICK n \in 0..Len(found) : n = Least(bad) /\ ~Matched(n)
    BY <2>2
  <2> HIDE DEF Matched
  <2>4. n # 0
    BY <1>2, <2>3
  <2>5. n - 1 \in 0..Len(found) /\ n - 1 \in Nat /\ n - 1 < Len(found) /\ (n - 1) + 1 = n
    BY <1>1, <2>3, <2>4
  <2>6. Matched(n - 1)
    BY <2>2, <2>3, <2>5
  <2>7. Matched((n - 1) + 1)
    BY <1>3, <2>5, <2>6
  <2> QED
    BY <2>3, <2>5, <2>7
<1>5. Matched(Len(found))
  <2>1. Len(found) \in 0..Len(found)
    BY <1>1
  <2> HIDE DEF Matched
  <2> QED
    BY <1>4, <2>1
<1> QED
  BY <1>1, <1>5 DEF Matchings

\* In a matching no row is used twice, and a row matches only at its place.
LEMMA MatchingFacts ==
  ASSUME NEW existing \in Seq(BareRows), NEW found \in Seq(FoundRows),
         NEW m \in Matchings(existing, found)
  PROVE  /\ DOMAIN m = 1..Len(found)
         /\ \A k \in 1..Len(found) :
              /\ m[k] \in 0..Len(existing)
              /\ m[k] # 0 => m[k] \in DOMAIN existing /\ existing[m[k]].place = found[k].place
         /\ \A j, k \in 1..Len(found) : m[j] = m[k] /\ m[k] # 0 => j = k
<1>1. /\ DOMAIN found = 1..Len(found) /\ Len(found) \in Nat
      /\ DOMAIN existing = 1..Len(existing) /\ Len(existing) \in Nat
  OBVIOUS
<1>2. /\ m \in [1..Len(found) -> 0..Len(existing)]
      /\ \A k \in 1..Len(found) : m[k] = BestMatch(existing, Used(m, k), found[k])
  BY <1>1 DEF Matchings
<1>3. ASSUME NEW k \in 1..Len(found), m[k] # 0
      PROVE  m[k] \in DOMAIN existing \ Used(m, k) /\ existing[m[k]].place = found[k].place
  <2>1. BestMatch(existing, Used(m, k), found[k]) # 0
    BY <1>2, <1>3
  <2>2. PICK level \in 1..4 :
          BestMatch(existing, Used(m, k), found[k])
            \in Candidates(existing, Used(m, k), found[k], MatchKeys[level])
    BY <2>1, BestMatchFacts
  <2>3. m[k] \in Candidates(existing, Used(m, k), found[k], MatchKeys[level])
    BY <1>2, <2>2
  <2>4. "place" \in MatchKeys[level]
    BY KeysListed
  <2> QED
    BY <2>3, <2>4 DEF Candidates, SameKey
<1>4. ASSUME NEW j \in 1..Len(found), NEW k \in 1..Len(found), m[j] = m[k], m[k] # 0, j < k
      PROVE  FALSE
  <2>1. j \in 1..(k - 1)
    BY <1>4
  <2>2. m[j] \in Used(m, k)
    BY <2>1 DEF Used
  <2> QED
    BY <1>3, <1>4, <2>2
<1>5. ASSUME NEW j \in 1..Len(found), NEW k \in 1..Len(found), m[j] = m[k], m[k] # 0
      PROVE  j = k
  <2>1. ~(j < k)
    BY <1>4, <1>5
  <2>2. ~(k < j)
    BY <1>4, <1>5
  <2> QED
    BY <2>1, <2>2
<1> QED
  BY <1>2, <1>3, <1>5

LEMMA MergeRowTyped ==
  ASSUME NEW old \in BareRows, NEW new \in FoundRows
  PROVE  /\ MergeRow(old, new) \in BareRows
         /\ MergeRow(old, new).id = old.id /\ MergeRow(old, new).place = old.place
         /\ old.data # Blank => MergeRow(old, new).data = old.data
         /\ MergeRow(old, new).pg = Or(old.pg, new.pg)
         /\ MergeRow(old, new).data = Or(old.data, new.data)
         /\ MergeRow(old, new).vlan =
              IF Or(old.pg, new.pg) # Blank /\ Or(old.pg, new.pg) = new.pg THEN new.vlan
              ELSE Or(old.vlan, new.vlan)
<1>1. /\ Or(old.pg, new.pg) \in Portgroups \cup {Blank}
      /\ Or(old.vlan, new.vlan) \in Vlans \cup {Blank} /\ new.vlan \in Vlans \cup {Blank}
      /\ Or(old.data, new.data) \in Data \cup {Blank}
      /\ old.place \in Places \cup {Blank} /\ old.id \in Nat
      /\ old.data # Blank => Or(old.data, new.data) = old.data
  BY DEF Or, BareRows, FoundRows
<1> QED
  BY <1>1 DEF MergeRow, Row, BareRows

\* The rows no row of the inventory has matched.
Others(existing, m) == DOMAIN existing \ {m[k] : k \in DOMAIN m}

LEMMA ConcatFacts ==
  ASSUME NEW T, NEW s \in Seq(T), NEW t \in Seq(T)
  PROVE  /\ s \o t \in Seq(T) /\ Len(s \o t) = Len(s) + Len(t)
         /\ \A k \in 1..Len(s) : (s \o t)[k] = s[k]
         /\ \A k \in 1..Len(t) : (s \o t)[Len(s) + k] = t[k]
<1>1. s \o t \in Seq(T) /\ Len(s \o t) = Len(s) + Len(t)
  OBVIOUS
<1>2. \A k \in 1..Len(s) : (s \o t)[k] = s[k]
  OBVIOUS
<1>3. ASSUME NEW k \in 1..Len(t) PROVE (s \o t)[Len(s) + k] = t[k]
  <2>1. Len(s) + k \in 1..Len(s) + Len(t) /\ ~(Len(s) + k <= Len(s)) /\ Len(s) + k - Len(s) = k
    BY <1>3
  <2> QED
    BY <2>1
<1> QED
  BY <1>1, <1>2, <1>3

LEMMA MergedFacts ==
  ASSUME NEW existing \in Seq(BareRows), NEW found \in Seq(FoundRows),
         NEW m \in Matchings(existing, found),
         NEW merged, merged = MergedBy(m, existing, found)
  PROVE  /\ merged \in Seq(BareRows)
         /\ Cardinality(Others(existing, m)) \in Nat
         /\ Len(merged) = Len(found) + Cardinality(Others(existing, m))
         /\ \A k \in 1..Len(found) :
              merged[k] = IF m[k] = 0 THEN found[k] ELSE MergeRow(existing[m[k]], found[k])
         /\ \A q \in 1..Cardinality(Others(existing, m)) :
              /\ InOrder(Others(existing, m))[q] \in Others(existing, m)
              /\ merged[Len(found) + q] = existing[InOrder(Others(existing, m))[q]]
         /\ \A p, q \in 1..Cardinality(Others(existing, m)) :
              p < q => InOrder(Others(existing, m))[p] < InOrder(Others(existing, m))[q]
         /\ \A i \in Others(existing, m) :
              \E q \in 1..Cardinality(Others(existing, m)) : merged[Len(found) + q] = existing[i]
<1> DEFINE others == Others(existing, m)
           first == [k \in 1..Len(found) |->
                       IF m[k] = 0 THEN found[k] ELSE MergeRow(existing[m[k]], found[k])]
           rest == Kept(existing, others)
<1>1. /\ DOMAIN found = 1..Len(found) /\ Len(found) \in Nat
      /\ DOMAIN m = 1..Len(found)
      /\ \A k \in 1..Len(found) : m[k] # 0 => m[k] \in DOMAIN existing
  BY MatchingFacts
<1>2. merged = first \o rest
  BY <1>1 DEF MergedBy, Unmatched, Others
<1>3. first \in Seq(BareRows) /\ Len(first) = Len(found)
  <2>1. ASSUME NEW k \in 1..Len(found)
        PROVE  (IF m[k] = 0 THEN found[k] ELSE MergeRow(existing[m[k]], found[k])) \in BareRows
    <3>1. found[k] \in FoundRows
      BY <1>1
    <3>2. FoundRows \subseteq BareRows
      BY DEF FoundRows, BareRows
    <3>3. CASE m[k] # 0
      <4>1. existing[m[k]] \in BareRows
        BY <1>1, <3>3
      <4> QED
        BY <3>1, <3>3, <4>1, MergeRowTyped
    <3> QED
      BY <3>1, <3>2, <3>3
  <2>2. first \in [1..Len(found) -> BareRows]
    BY <2>1
  <2> HIDE DEF first
  <2> QED
    BY <1>1, <2>2
<1>4. others \in SUBSET DOMAIN existing
  BY DEF Others
<1> HIDE DEF others
<1>5. /\ rest \in Seq(BareRows) /\ DOMAIN rest = 1..Cardinality(others) /\ Cardinality(others) \in Nat
      /\ \A q \in 1..Cardinality(others) :
           InOrder(others)[q] \in others /\ rest[q] = existing[InOrder(others)[q]]
      /\ \A p, q \in 1..Cardinality(others) : p < q => InOrder(others)[p] < InOrder(others)[q]
      /\ \A i \in others : \E q \in 1..Cardinality(others) : rest[q] = existing[i]
  BY <1>4, KeptFacts, ZenonT(30)
<1>6. \A k \in 1..Len(found) :
        first[k] = IF m[k] = 0 THEN found[k] ELSE MergeRow(existing[m[k]], found[k])
  OBVIOUS
<1> HIDE DEF first, rest
<1>7. Len(rest) = Cardinality(others)
  BY <1>5
<1>8. /\ merged \in Seq(BareRows) /\ Len(merged) = Len(found) + Cardinality(others)
      /\ \A k \in 1..Len(found) : merged[k] = first[k]
      /\ \A q \in 1..Cardinality(others) : merged[Len(found) + q] = rest[q]
  <2>1. Len(first) = Len(found) /\ first \in Seq(BareRows) /\ rest \in Seq(BareRows)
    BY <1>3, <1>5
  <2>2. /\ first \o rest \in Seq(BareRows) /\ Len(first \o rest) = Len(first) + Len(rest)
        /\ \A k \in 1..Len(first) : (first \o rest)[k] = first[k]
        /\ \A k \in 1..Len(rest) : (first \o rest)[Len(first) + k] = rest[k]
    <3>1. \A s, t \in Seq(BareRows) :
            /\ s \o t \in Seq(BareRows) /\ Len(s \o t) = Len(s) + Len(t)
            /\ \A k \in 1..Len(s) : (s \o t)[k] = s[k]
            /\ \A k \in 1..Len(t) : (s \o t)[Len(s) + k] = t[k]
      BY ConcatFacts
    <3> QED
      BY <2>1, <3>1, Zenon
  <2>3. merged \in Seq(BareRows) /\ Len(merged) = Len(found) + Cardinality(others)
    BY <1>2, <1>7, <2>1, <2>2
  <2>4. \A k \in 1..Len(found) : merged[k] = first[k]
    BY <1>2, <2>1, <2>2
  <2>5. \A q \in 1..Cardinality(others) : merged[Len(found) + q] = rest[q]
    BY <1>2, <1>7, <2>1, <2>2
  <2> QED
    BY <2>3, <2>4, <2>5
<1>9. \A q \in 1..Cardinality(others) : merged[Len(found) + q] = existing[InOrder(others)[q]]
  BY <1>5, <1>8
<1>10. \A k \in 1..Len(found) :
         merged[k] = IF m[k] = 0 THEN found[k] ELSE MergeRow(existing[m[k]], found[k])
  BY <1>6, <1>8
<1>11. \A i \in others : \E q \in 1..Cardinality(others) : merged[Len(found) + q] = existing[i]
  BY <1>5, <1>8, SMTT(30)
<1>12. \A q \in 1..Cardinality(others) : InOrder(others)[q] \in others
  BY <1>5
<1>13. \A p, q \in 1..Cardinality(others) : p < q => InOrder(others)[p] < InOrder(others)[q]
  BY <1>5
<1>14. merged \in Seq(BareRows) /\ Len(merged) = Len(found) + Cardinality(others) /\ Cardinality(others) \in Nat
  BY <1>5, <1>8
<1> QED
  BY <1>9, <1>10, <1>11, <1>12, <1>13, <1>14 DEF others

\* Each row of the table is among the merged ones, once, at its place and with its data: the
\* rows they come from, where they come from one, are different.
LEMMA MergeKeepsRows ==
  ASSUME NEW existing \in Seq(BareRows), NEW found \in Seq(FoundRows),
         NEW m \in Matchings(existing, found),
         NEW merged, merged = MergedBy(m, existing, found),
         \A i \in DOMAIN existing : existing[i].id # 0,
         \A i, j \in DOMAIN existing : existing[i].id = existing[j].id => i = j
  PROVE  /\ \A j, k \in DOMAIN merged :
              merged[j].id = merged[k].id /\ merged[k].id # 0 => j = k
         /\ \A j \in DOMAIN merged :
              merged[j].id # 0 => \E i \in DOMAIN existing : merged[j].id = existing[i].id
         /\ \A i \in DOMAIN existing : \E j \in DOMAIN merged :
              /\ merged[j].id = existing[i].id /\ merged[j].place = existing[i].place
              /\ existing[i].data # Blank => merged[j].data = existing[i].data
<1> DEFINE others == Others(existing, m)
           n == Len(found)
           q == Cardinality(others)
<1>1. /\ n \in Nat /\ q \in Nat /\ DOMAIN merged = 1..(n + q)
      /\ \A k \in 1..n : found[k] \in FoundRows
      /\ \A i \in DOMAIN existing : existing[i] \in BareRows
      /\ DOMAIN existing = 1..Len(existing) /\ Len(existing) \in Nat
  <2>1. merged \in Seq(BareRows) /\ q \in Nat /\ Len(merged) = n + q
    BY MergedFacts
  <2> HIDE DEF q
  <2> QED
    BY <2>1
<1>2. /\ DOMAIN m = 1..n
      /\ \A k \in 1..n : m[k] \in 0..Len(existing) /\ (m[k] # 0 => m[k] \in DOMAIN existing)
      /\ \A j, k \in 1..n : m[j] = m[k] /\ m[k] # 0 => j = k
  BY MatchingFacts
<1>3. \A k \in 1..n : merged[k] = IF m[k] = 0 THEN found[k] ELSE MergeRow(existing[m[k]], found[k])
  BY MergedFacts
<1>4. \A p \in 1..q : InOrder(others)[p] \in others /\ merged[n + p] = existing[InOrder(others)[p]]
  BY MergedFacts
<1>5. \A p, r \in 1..q : p < r => InOrder(others)[p] < InOrder(others)[r]
  BY MergedFacts
<1>6. \A i \in others : \E p \in 1..q : merged[n + p] = existing[i]
  BY MergedFacts
<1>7. /\ others \subseteq DOMAIN existing
      /\ \A i \in DOMAIN existing : i \in others \/ \E k \in 1..n : m[k] = i
      /\ \A k \in 1..n : m[k] \notin others
  BY <1>2 DEF Others
<1> HIDE DEF others, n, q
<1>8. PICK origin : origin = [j \in 1..(n + q) |-> IF j <= n THEN m[j] ELSE InOrder(others)[j - n]]
  OBVIOUS
<1>9. /\ \A k \in 1..n : origin[k] = m[k]
      /\ \A j \in 1..(n + q) : ~(j <= n) => j - n \in 1..q /\ origin[j] = InOrder(others)[j - n]
  BY <1>1, <1>8
<1>10. ASSUME NEW k \in 1..n
       PROVE  /\ m[k] = 0 => merged[k].id = 0
              /\ m[k] # 0 => /\ merged[k].id = existing[m[k]].id
                             /\ merged[k].place = existing[m[k]].place
                             /\ existing[m[k]].data # Blank => merged[k].data = existing[m[k]].data
  <2>1. CASE m[k] = 0
    <3>1. merged[k] = found[k] /\ found[k] \in FoundRows
      BY <1>1, <1>3, <2>1
    <3> QED
      BY <2>1, <3>1 DEF FoundRows
  <2>2. CASE m[k] # 0
    <3>1. PICK old \in BareRows, new \in FoundRows : old = existing[m[k]] /\ new = found[k]
      BY <1>1, <1>2, <2>2
    <3>2. merged[k] = MergeRow(old, new)
      BY <1>3, <2>2, <3>1
    <3>3. /\ MergeRow(old, new).id = old.id /\ MergeRow(old, new).place = old.place
          /\ old.data # Blank => MergeRow(old, new).data = old.data
      BY MergeRowTyped
    <3> QED
      BY <2>2, <3>1, <3>2, <3>3
  <2> QED
    BY <2>1, <2>2
<1>11. ASSUME NEW j \in 1..(n + q)
       PROVE  /\ origin[j] = 0 => merged[j].id = 0
              /\ origin[j] # 0 => origin[j] \in DOMAIN existing /\ merged[j].id = existing[origin[j]].id
  <2>1. CASE j <= n
    <3>1. j \in 1..n
      BY <1>1, <2>1
    <3> QED
      BY <1>2, <1>9, <1>10, <3>1
  <2>2. CASE ~(j <= n)
    <3>1. j - n \in 1..q /\ origin[j] = InOrder(others)[j - n] /\ n + (j - n) = j
      BY <1>1, <1>9, <2>2
    <3>2. origin[j] \in others /\ merged[j] = existing[origin[j]]
      BY <1>4, <3>1
    <3>3. origin[j] # 0
      BY <1>1, <1>7, <3>2
    <3> QED
      BY <1>7, <3>2, <3>3
  <2> QED
    BY <2>1, <2>2
<1>12. ASSUME NEW j \in 1..(n + q), NEW k \in 1..(n + q), origin[j] = origin[k], origin[k] # 0
       PROVE  j = k
  <2>1. CASE j <= n /\ k <= n
    <3>1. j \in 1..n /\ k \in 1..n
      BY <1>1, <2>1
    <3> QED
      BY <1>2, <1>9, <1>12, <3>1
  <2>2. ASSUME NEW a \in 1..(n + q), NEW b \in 1..(n + q), a <= n, ~(b <= n), origin[a] = origin[b]
        PROVE  FALSE
    <3>1. a \in 1..n /\ b - n \in 1..q /\ origin[a] = m[a] /\ origin[b] = InOrder(others)[b - n]
      BY <1>1, <1>9, <2>2
    <3> QED
      BY <1>4, <1>7, <2>2, <3>1, ZenonT(30)
  <2>3. CASE ~(j <= n) /\ ~(k <= n)
    <3>1. /\ j - n \in 1..q /\ k - n \in 1..q
          /\ InOrder(others)[j - n] = InOrder(others)[k - n]
          /\ InOrder(others)[k - n] \in Int
      BY <1>1, <1>4, <1>7, <1>9, <1>12, <2>3
    <3>2. ~(j - n < k - n) /\ ~(k - n < j - n)
      BY <1>5, <3>1
    <3> QED
      BY <1>1, <3>1, <3>2
  <2> QED
    BY <1>12, <2>1, <2>2, <2>3
<1>13. \A j, k \in DOMAIN merged : merged[j].id = merged[k].id /\ merged[k].id # 0 => j = k
  BY <1>1, <1>11, <1>12
<1>14. \A j \in DOMAIN merged :
         merged[j].id # 0 => \E i \in DOMAIN existing : merged[j].id = existing[i].id
  BY <1>1, <1>11
<1>15. ASSUME NEW i \in DOMAIN existing
       PROVE  \E j \in DOMAIN merged :
                /\ merged[j].id = existing[i].id /\ merged[j].place = existing[i].place
                /\ existing[i].data # Blank => merged[j].data = existing[i].data
  <2>1. CASE i \in others
    <3>1. PICK p \in 1..q : merged[n + p] = existing[i]
      BY <1>6, <2>1
    <3>2. n + p \in DOMAIN merged
      BY <1>1, <3>1
    <3> QED
      BY <3>1, <3>2
  <2>2. ASSUME NEW k \in 1..n, m[k] = i
        PROVE  \E j \in DOMAIN merged :
                 /\ merged[j].id = existing[i].id /\ merged[j].place = existing[i].place
                 /\ existing[i].data # Blank => merged[j].data = existing[i].data
    <3>1. i # 0 /\ k \in DOMAIN merged
      BY <1>1, <2>2
    <3> QED
      BY <1>10, <2>2, <3>1
  <2> QED
    BY <1>7, <2>1, <2>2
<1> QED
  BY <1>13, <1>14, <1>15

\* MergeRows is what one matching gives.
LEMMA MergeRowsIs ==
  ASSUME NEW existing \in Seq(BareRows), NEW found \in Seq(FoundRows)
  PROVE  \E m \in Matchings(existing, found) :
           MergeRows(existing, found) = MergedBy(m, existing, found)
<1>1. {MergedBy(m, existing, found) : m \in Matchings(existing, found)} # {}
  BY MatchingExists
<1> QED
  BY <1>1 DEF MergeRows

-----------------------------------------------------------------------------
(***************************************************************************)
(* Rows that are shown                                                     *)
(***************************************************************************)

\* Ids are below the next one, and rows that have one do not share it.
IdsBelow(rs, next) == \A i \in DOMAIN rs : rs[i].id < next
IdsApart(rs) == \A i, j \in DOMAIN rs : rs[i].id = rs[j].id /\ rs[j].id # 0 => i = j

\* Preparing rows keeps what they hold, and gives each that has none an id of its own.
LEMMA PrepareFacts ==
  ASSUME NEW rs \in Seq(BareRows), NEW opts \in [Places -> SUBSET Portgroups],
         nextRowId \in Nat \ {0}, IdsBelow(rs, nextRowId), IdsApart(rs),
         NEW shown, shown = Prepare(rs, opts)
  PROVE  /\ shown \in Seq(ShownRows) /\ DOMAIN shown = DOMAIN rs
         /\ NewIds(rs) \in Nat
         /\ IdsBelow(shown, nextRowId + NewIds(rs))
         /\ IdsApart(shown)
         /\ \A i \in DOMAIN rs :
              /\ shown[i].place = rs[i].place /\ shown[i].data = rs[i].data
              /\ shown[i].opts = OptionsOf(opts, rs[i].place)
              /\ rs[i].id # 0 => shown[i].id = rs[i].id
              /\ rs[i].id = 0 => shown[i].id >= nextRowId
<1> DEFINE n == Len(rs)
           new == {i \in DOMAIN rs : rs[i].id = 0}
<1>1. n \in Nat /\ DOMAIN rs = 1..n /\ \A i \in 1..n : rs[i] \in BareRows
  OBVIOUS
<1>2. new \in SUBSET Int /\ IsFiniteSet(new)
  <2>1. IsFiniteSet(1..n)
    BY <1>1, FS_Interval
  <2>2. new \in SUBSET (1..n)
    BY <1>1
  <2>3. \A i \in new : i \in Int
    BY <1>1
  <2> HIDE DEF new
  <2> QED
    BY <2>1, <2>2, <2>3, FS_Subset
<1>3. NewIds(rs) = Cardinality(new) /\ Cardinality(new) \in Nat
  BY <1>2, FS_CardinalityType DEF NewIds
<1>4. ASSUME NEW i \in 1..n
      PROVE  Cardinality({k \in 1..(i - 1) : rs[k].id = 0}) = Rank(new, i)
  <2>1. {k \in 1..(i - 1) : rs[k].id = 0} = {k \in new : k < i}
    BY <1>1
  <2> QED
    BY <2>1 DEF Rank
<1>5. ASSUME NEW i \in 1..n, rs[i].id = 0
      PROVE  Rank(new, i) \in Nat /\ Rank(new, i) < Cardinality(new)
  <2>1. i \in new
    BY <1>1, <1>5
  <2> HIDE DEF new
  <2>2. Rank(new, i) \in 0..Cardinality(new) - 1
    BY <1>2, <2>1, RankType
  <2> QED
    BY <1>3, <2>2
<1>6. ASSUME NEW i \in 1..n, NEW j \in 1..n, rs[i].id = 0, rs[j].id = 0, i < j
      PROVE  Rank(new, i) < Rank(new, j)
  <2>1. i \in new /\ j \in new
    BY <1>1, <1>6
  <2> HIDE DEF new
  <2> QED
    BY <1>2, <1>6, <2>1, RankGrows
<1> HIDE DEF n, new
<1>7. DOMAIN shown = 1..n
  BY <1>1 DEF Prepare
<1>8. ASSUME NEW i \in 1..n
      PROVE  \E id, lists :
               /\ shown[i] = [place |-> rs[i].place, pg |-> rs[i].pg, vlan |-> rs[i].vlan,
                              data |-> rs[i].data, id |-> id, opts |-> lists]
               /\ lists = OptionsOf(opts, rs[i].place)
               /\ rs[i].id # 0 => id = rs[i].id
               /\ rs[i].id = 0 => id = nextRowId + Rank(new, i)
  <2>1. shown[i] = [place |-> rs[i].place, pg |-> rs[i].pg, vlan |-> rs[i].vlan, data |-> rs[i].data,
                    id |-> IF rs[i].id # 0 THEN rs[i].id ELSE nextRowId + Rank(new, i),
                    opts |-> OptionsOf(opts, rs[i].place)]
    BY <1>1, <1>4 DEF Prepare
  <2> QED
    BY <2>1
<1>9. ASSUME NEW i \in 1..n
      PROVE  /\ shown[i].place = rs[i].place /\ shown[i].data = rs[i].data
             /\ shown[i].opts = OptionsOf(opts, rs[i].place)
             /\ rs[i].id # 0 => shown[i].id = rs[i].id
             /\ rs[i].id = 0 => shown[i].id = nextRowId + Rank(new, i)
  <2>1. PICK id, lists :
               /\ shown[i] = [place |-> rs[i].place, pg |-> rs[i].pg, vlan |-> rs[i].vlan,
                              data |-> rs[i].data, id |-> id, opts |-> lists]
               /\ lists = OptionsOf(opts, rs[i].place)
               /\ rs[i].id # 0 => id = rs[i].id
               /\ rs[i].id = 0 => id = nextRowId + Rank(new, i)
    BY <1>8
  <2>2. shown[i].place = rs[i].place /\ shown[i].data = rs[i].data /\ shown[i].id = id /\ shown[i].opts = lists
    BY <2>1
  <2> QED
    BY <2>1, <2>2
<1>10. ASSUME NEW i \in 1..n PROVE shown[i] \in ShownRows
  <2>1. PICK id, lists :
               /\ shown[i] = [place |-> rs[i].place, pg |-> rs[i].pg, vlan |-> rs[i].vlan,
                              data |-> rs[i].data, id |-> id, opts |-> lists]
               /\ lists = OptionsOf(opts, rs[i].place)
               /\ rs[i].id # 0 => id = rs[i].id
               /\ rs[i].id = 0 => id = nextRowId + Rank(new, i)
    BY <1>8
  <2>2. rs[i] \in BareRows
    BY <1>1
  <2>3. lists \in SUBSET Portgroups
    BY <2>1, <2>2 DEF OptionsOf, BareRows
  <2>4. id \in Nat \ {0}
    BY <1>5, <2>1, <2>2 DEF BareRows
  <2>5. /\ rs[i].place \in Places \cup {Blank} /\ rs[i].pg \in Portgroups \cup {Blank}
        /\ rs[i].vlan \in Vlans \cup {Blank} /\ rs[i].data \in Data \cup {Blank}
    BY <2>2 DEF BareRows
  <2> QED
    BY <2>1, <2>3, <2>4, <2>5 DEF ShownRows
<1>11. shown \in Seq(ShownRows)
  <2>1. shown = [i \in 1..n |-> shown[i]]
    BY <1>1, <1>7 DEF Prepare
  <2>2. shown \in [1..n -> ShownRows]
    BY <1>10, <2>1
  <2> QED
    BY <1>1, <2>2
<1>12. \A i \in 1..n : rs[i].id \in Nat /\ rs[i].id < nextRowId
  BY <1>1 DEF BareRows, IdsBelow
<1>13. IdsBelow(shown, nextRowId + NewIds(rs))
  <2> SUFFICES ASSUME NEW i \in 1..n PROVE shown[i].id < nextRowId + Cardinality(new)
    BY <1>3, <1>7 DEF IdsBelow
  <2> QED
    BY <1>3, <1>5, <1>9, <1>12
<1>14. IdsApart(shown)
  <2> SUFFICES ASSUME NEW i \in 1..n, NEW j \in 1..n, shown[i].id = shown[j].id PROVE i = j
    BY <1>7 DEF IdsApart
  <2>1. CASE rs[i].id # 0 /\ rs[j].id # 0
    BY <1>1, <1>9, <2>1 DEF IdsApart
  <2>2. CASE rs[i].id = 0 /\ rs[j].id # 0
    BY <1>5, <1>9, <1>12, <2>2
  <2>3. CASE rs[i].id # 0 /\ rs[j].id = 0
    BY <1>5, <1>9, <1>12, <2>3
  <2>4. CASE rs[i].id = 0 /\ rs[j].id = 0
    <3>1. Rank(new, i) = Rank(new, j) /\ Rank(new, i) \in Nat
      BY <1>5, <1>9, <2>4
    <3>2. ~(i < j) /\ ~(j < i)
      BY <1>6, <2>4, <3>1
    <3> QED
      BY <3>2
  <2> QED
    BY <2>1, <2>2, <2>3, <2>4
<1>15. \A i \in 1..n : rs[i].id = 0 => shown[i].id >= nextRowId
  BY <1>5, <1>9
<1> QED
  BY <1>1, <1>3, <1>7, <1>9, <1>11, <1>13, <1>14, <1>15

LEMMA BareFacts ==
  ASSUME rows \in Seq(ShownRows)
  PROVE  /\ Bare(rows) \in Seq(BareRows) /\ DOMAIN Bare(rows) = DOMAIN rows
         /\ \A i \in DOMAIN rows :
              /\ Bare(rows)[i].place = rows[i].place /\ Bare(rows)[i].data = rows[i].data
              /\ Bare(rows)[i].id = rows[i].id /\ rows[i].id # 0
<1>1. DOMAIN rows = 1..Len(rows) /\ Len(rows) \in Nat
  OBVIOUS
<1>2. ASSUME NEW i \in 1..Len(rows)
      PROVE  /\ Row(rows[i].place, rows[i].pg, rows[i].vlan, rows[i].data, rows[i].id) \in BareRows
             /\ rows[i].id # 0
  <2>1. rows[i] \in ShownRows
    BY <1>1, <1>2
  <2> QED
    BY <2>1 DEF ShownRows, BareRows, Row
<1>3. Bare(rows) \in [1..Len(rows) -> BareRows]
  BY <1>1, <1>2 DEF Bare
<1>4. Bare(rows) \in Seq(BareRows)
  BY <1>1, <1>3
<1>5. ASSUME NEW i \in 1..Len(rows)
      PROVE  /\ Bare(rows)[i].place = rows[i].place /\ Bare(rows)[i].data = rows[i].data
             /\ Bare(rows)[i].id = rows[i].id
  BY <1>1 DEF Bare, Row
<1> QED
  BY <1>1, <1>2, <1>3, <1>4, <1>5

-----------------------------------------------------------------------------
(***************************************************************************)
(* The page                                                                *)
(***************************************************************************)

\* With the types, what every step keeps: ids are those of one row each, and lists are those
\* of the place.
OwnIds == IdsBelow(rows, nextRowId) /\ IdsApart(rows)
PageInv == TypeOK /\ OwnIds /\ ListsAreCurrent

LEMMA OptionsTyped ==
  ASSUME NEW inv \in Seq(InventoryEntries)
  PROVE  OptionsFrom(inv) \in [Places -> SUBSET Portgroups]
<1>1. \A i \in DOMAIN inv : inv[i] \in InventoryEntries
  OBVIOUS
<1>2. ASSUME NEW p \in Places PROVE PortgroupsOf(inv, p) \in SUBSET Portgroups
  BY <1>1 DEF PortgroupsOf, InventoryEntries
<1> QED
  BY <1>2 DEF OptionsFrom

\* Whatever rows the table is replaced by, if their ids are of the page or yet to be given.
LEMMA ShownFacts ==
  ASSUME TypeOK, NEW rs \in Seq(BareRows), IdsBelow(rs, nextRowId), IdsApart(rs),
         NEW opts \in [Places -> SUBSET Portgroups], Show(rs, opts), options' = opts
  PROVE  /\ rows' \in Seq(ShownRows) /\ nextRowId' \in Nat \ {0}
         /\ OwnIds' /\ ListsAreCurrent'
<1>1. nextRowId \in Nat \ {0}
  BY DEF TypeOK
<1>2. PICK shown : shown = Prepare(rs, opts) /\ rows' = shown /\ nextRowId' = nextRowId + NewIds(rs)
  BY DEF Show
<1>3. /\ shown \in Seq(ShownRows) /\ DOMAIN shown = DOMAIN rs
      /\ NewIds(rs) \in Nat
      /\ IdsBelow(shown, nextRowId + NewIds(rs))
      /\ IdsApart(shown)
      /\ \A i \in DOMAIN rs :
           shown[i].place = rs[i].place /\ shown[i].opts = OptionsOf(opts, rs[i].place)
  BY <1>1, <1>2, PrepareFacts
<1>4. OwnIds'
  BY <1>2, <1>3 DEF OwnIds, IdsBelow, IdsApart
<1>5. ListsAreCurrent'
  BY <1>2, <1>3 DEF ListsAreCurrent, OptionsOf
<1> QED
  BY <1>1, <1>2, <1>3, <1>4, <1>5

\* Rows of the server or of a file have no ids.
LEMMA StoredFacts ==
  ASSUME TypeOK, NEW table \in Tables \cup Files \cup {<<>>}
  PROVE  table \in Seq(BareRows) /\ IdsBelow(table, nextRowId) /\ IdsApart(table)
<1>1. table \in Seq(StoredRows)
  <2>1. <<>> \in Seq(StoredRows)
    OBVIOUS
  <2> QED
    BY <2>1, NetworksAssumption
<1>2. \A i \in DOMAIN table : table[i] \in StoredRows
  BY <1>1
<1>3. \A i \in DOMAIN table : table[i].id = 0 /\ table[i] \in BareRows
  BY <1>2 DEF StoredRows, BareRows
<1>4. table \in Seq(BareRows)
  <2>1. DOMAIN table = 1..Len(table) /\ Len(table) \in Nat /\ table = [i \in 1..Len(table) |-> table[i]]
    BY <1>1
  <2>2. table \in [1..Len(table) -> BareRows]
    BY <1>3, <2>1
  <2> QED
    BY <2>1, <2>2
<1> QED
  BY <1>3, <1>4 DEF TypeOK, IdsBelow, IdsApart

\* The rows a sync makes of those shown.
LEMMA SyncFacts ==
  ASSUME PageInv, NEW inv \in Inventories,
         NEW merged, merged = MergeRows(Bare(rows), RowsFromInventory(inv))
  PROVE  /\ merged \in Seq(BareRows) /\ IdsBelow(merged, nextRowId) /\ IdsApart(merged)
         /\ \A i \in DOMAIN rows : \E j \in DOMAIN merged :
              /\ merged[j].id = rows[i].id /\ merged[j].place = rows[i].place
              /\ rows[i].data # Blank => merged[j].data = rows[i].data
<1>1. rows \in Seq(ShownRows) /\ nextRowId \in Nat \ {0}
  BY DEF PageInv, TypeOK
<1>2. PICK bare : bare = Bare(rows)
  OBVIOUS
<1>3. PICK found : found = RowsFromInventory(inv)
  OBVIOUS
<1>4. /\ bare \in Seq(BareRows) /\ DOMAIN bare = DOMAIN rows
      /\ \A i \in DOMAIN rows :
           /\ bare[i].place = rows[i].place /\ bare[i].data = rows[i].data
           /\ bare[i].id = rows[i].id /\ bare[i].id # 0
  BY <1>1, <1>2, BareFacts
<1>5. found \in Seq(FoundRows)
  BY <1>3, FoundTyped, NetworksAssumption
<1>6. PICK m \in Matchings(bare, found) : merged = MergedBy(m, bare, found)
  BY <1>2, <1>3, <1>4, <1>5, MergeRowsIs
<1>7. /\ \A i \in DOMAIN bare : bare[i].id # 0 /\ bare[i].id < nextRowId
      /\ \A i, j \in DOMAIN bare : bare[i].id = bare[j].id => i = j
  BY <1>4 DEF PageInv, OwnIds, IdsBelow, IdsApart
<1>8. /\ \A j, k \in DOMAIN merged : merged[j].id = merged[k].id /\ merged[k].id # 0 => j = k
      /\ \A j \in DOMAIN merged :
           merged[j].id # 0 => \E i \in DOMAIN bare : merged[j].id = bare[i].id
      /\ \A i \in DOMAIN bare : \E j \in DOMAIN merged :
           /\ merged[j].id = bare[i].id /\ merged[j].place = bare[i].place
           /\ bare[i].data # Blank => merged[j].data = bare[i].data
  BY <1>4, <1>5, <1>6, <1>7, MergeKeepsRows
<1>9. merged \in Seq(BareRows)
  BY <1>4, <1>5, <1>6, MergedFacts
<1>10. IdsBelow(merged, nextRowId)
  <2> SUFFICES ASSUME NEW j \in DOMAIN merged PROVE merged[j].id < nextRowId
    BY DEF IdsBelow
  <2>1. CASE merged[j].id = 0
    BY <1>1, <2>1
  <2>2. CASE merged[j].id # 0
    BY <1>7, <1>8, <2>2
  <2> QED
    BY <2>1, <2>2
<1>11. IdsApart(merged)
  BY <1>8 DEF IdsApart
<1> QED
  BY <1>4, <1>8, <1>9, <1>10, <1>11

LEMMA AuthInitTyped ==
  ASSUME AuthInit PROVE AuthTypeOK
<1>1. sdk \in {[pc |-> "load", tried |-> 0, left |-> 0], Polling(BlindPolls), Stopped}
  BY DEF AuthInit
<1>2. sdk \in SdkState
  BY <1>1, ClientAuthAssumption DEF Polling, Stopped, SdkState, SdkPaths
<1> QED
  BY <1>2 DEF AuthInit, AuthTypeOK

\* The identity keeps its types while it is searched for.
LEMMA AuthStepTyped ==
  ASSUME AuthTypeOK, AuthStep PROVE AuthTypeOK'
<1>1. /\ Stopped \in SdkState /\ \A n \in Nat : Polling(n) \in SdkState
      /\ BlindPolls \in Nat /\ SdkPolls \in Nat
      /\ sdk.left \in Nat /\ sdk.tried \in 0..(SdkPaths - 1)
  BY ClientAuthAssumption DEF AuthTypeOK, Polling, Stopped, SdkState, SdkPaths
<1>2. Again \in SdkState
  <2>1. CASE sdk.left > 1
    <3>1. sdk.left - 1 \in Nat
      BY <1>1, <2>1
    <3> QED
      BY <1>1, <2>1, <3>1 DEF Again
  <2> QED
    BY <1>1, <2>1 DEF Again
<1>3. CASE SdkLoads
  <2>1. sdk.tried + 1 < SdkPaths => [sdk EXCEPT !.tried = @ + 1] \in SdkState
    BY <1>1 DEF AuthTypeOK, SdkState, SdkPaths
  <2>2. sdk' \in SdkState
    BY <1>1, <1>3, <2>1 DEF SdkLoads
  <2> QED
    BY <1>3, <2>2 DEF SdkLoads, AuthTypeOK
<1>4. CASE SdkPoll
  <2>1. \A call \in {"ticket", "session"} : [sdk EXCEPT !.pc = call] \in SdkState
    BY DEF AuthTypeOK, SdkState
  <2>2. sdk' \in SdkState
    BY <1>2, <1>4, <2>1 DEF SdkPoll
  <2> QED
    BY <1>4, <2>2 DEF SdkPoll, AuthTypeOK
<1>5. CASE SdkAnswers
  <2>1. [sdk EXCEPT !.pc = "session"] \in SdkState
    BY DEF AuthTypeOK, SdkState
  <2>2. sdk' \in SdkState
    BY <1>1, <1>2, <1>5, <2>1 DEF SdkAnswers
  <2>3. /\ sessionId' \in Sessions \cup {None} /\ cloneTicket' \in Tickets \cup {None}
        /\ sessionSignal' \in Sessions \cup Tickets \cup {None}
    BY <1>5 DEF SdkAnswers, TakeTicket, TakeSession, AuthTypeOK
  <2> QED
    BY <1>5, <2>2, <2>3 DEF SdkAnswers, AuthTypeOK
<1>6. CASE ParentMessage
  BY <1>6 DEF ParentMessage, TakeSession, AuthTypeOK
<1>7. CASE CreateSession
  BY <1>7 DEF CreateSession, AuthTypeOK
<1> QED
  BY <1>3, <1>4, <1>5, <1>6, <1>7 DEF AuthStep

LEMMA InitPage == Init => PageInv
<1> SUFFICES ASSUME Init PROVE PageInv
  OBVIOUS
<1>1. rows = <<>> /\ rows \in Seq(ShownRows) /\ DOMAIN rows = {}
  BY DEF Init
<1>2. AuthTypeOK
  BY AuthInitTyped DEF Init
<1>3. options \in [Places -> SUBSET Portgroups]
  BY DEF Init, NoOptions
<1>4. /\ load.state = "sent" /\ sync.state \in {"asked", "waiting", "idle"}
      /\ import.state = "idle" /\ save.state = "idle"
  BY DEF Init, State, Idle
<1>5. edits \in 0..MaxEdits
  BY NetworksAssumption DEF Init
<1>6. TypeOK
  BY <1>1, <1>2, <1>3, <1>4, <1>5 DEF Init, TypeOK
<1> QED
  BY <1>1, <1>6 DEF PageInv, OwnIds, IdsBelow, IdsApart, ListsAreCurrent

\* What an edit of the rows has to show: it leaves the rest alone.
LEMMA EditKeeps ==
  ASSUME PageInv, NEW rs, Edit(rs), rs \in Seq(ShownRows), nextRowId' \in Nat \ {0},
         IdsBelow(rs, nextRowId'), IdsApart(rs),
         \A i \in DOMAIN rs : rs[i].opts = OptionsOf(options, rs[i].place)
  PROVE  PageInv'
<1>1. /\ rows' = rs /\ edits < MaxEdits /\ edits' = edits + 1
      /\ UNCHANGED <<inventory, options, load, sync, import, save, stored, authVars>>
  BY DEF Edit
<1>2. edits' \in 0..MaxEdits
  BY <1>1, NetworksAssumption DEF PageInv, TypeOK
<1>3. AuthTypeOK'
  BY <1>1 DEF PageInv, TypeOK, AuthTypeOK, authVars
<1>4. TypeOK'
  BY <1>1, <1>2, <1>3 DEF PageInv, TypeOK
<1>5. OwnIds'
  BY <1>1 DEF OwnIds, IdsBelow, IdsApart
<1>6. ListsAreCurrent'
  BY <1>1 DEF ListsAreCurrent, OptionsOf
<1> QED
  BY <1>4, <1>5, <1>6 DEF PageInv

\* One row replaced by another with the same id.
LEMMA RowEdited ==
  ASSUME PageInv, NEW i \in DOMAIN rows, NEW row \in ShownRows, row.id = rows[i].id,
         row.opts = OptionsOf(options, row.place),
         Edit([rows EXCEPT ![i] = row]), UNCHANGED nextRowId
  PROVE  PageInv'
<1>1. PICK rs : rs = [rows EXCEPT ![i] = row]
  OBVIOUS
<1>2. /\ rows \in Seq(ShownRows) /\ nextRowId \in Nat \ {0}
      /\ IdsBelow(rows, nextRowId) /\ IdsApart(rows) /\ ListsAreCurrent
  BY DEF PageInv, TypeOK, OwnIds
<1>3. /\ rs \in Seq(ShownRows) /\ DOMAIN rs = DOMAIN rows
      /\ \A j \in DOMAIN rows : rs[j] = IF j = i THEN row ELSE rows[j]
  BY <1>1, <1>2
<1>4. \A j \in DOMAIN rows : rs[j].id = rows[j].id
  BY <1>3
<1>5. IdsBelow(rs, nextRowId) /\ IdsApart(rs)
  BY <1>2, <1>3, <1>4 DEF IdsBelow, IdsApart
<1>6. \A j \in DOMAIN rs : rs[j].opts = OptionsOf(options, rs[j].place)
  BY <1>2, <1>3 DEF ListsAreCurrent
<1> QED
  BY <1>1, <1>2, <1>3, <1>5, <1>6, EditKeeps

LEMMA AddRowKeeps ==
  ASSUME PageInv, AddRow PROVE PageInv'
<1>1. PICK blank : blank = Row(Blank, Blank, Blank, Blank, 0)
  OBVIOUS
<1>2. blank \in BareRows /\ blank.id = 0
  BY <1>1 DEF Row, BareRows
<1>3. PICK rs : rs = <<blank>>
  OBVIOUS
<1>4. rs \in Seq(BareRows) /\ DOMAIN rs = {1} /\ rs[1] = blank
  BY <1>2, <1>3
<1>5. PICK shown : shown = Prepare(rs, options)
  OBVIOUS
<1>6. /\ rows \in Seq(ShownRows) /\ nextRowId \in Nat \ {0}
      /\ options \in [Places -> SUBSET Portgroups]
      /\ IdsBelow(rows, nextRowId) /\ IdsApart(rows) /\ ListsAreCurrent
  BY DEF PageInv, TypeOK, OwnIds
<1>7. IdsBelow(rs, nextRowId) /\ IdsApart(rs)
  BY <1>2, <1>4, <1>6 DEF IdsBelow, IdsApart
<1>8. NewIds(rs) = 1
  <2>1. {i \in DOMAIN rs : rs[i].id = 0} = {1}
    BY <1>2, <1>4
  <2> QED
    BY <2>1, FS_Singleton DEF NewIds
<1>9. /\ shown \in Seq(ShownRows) /\ DOMAIN shown = {1}
      /\ IdsBelow(shown, nextRowId + 1)
      /\ shown[1].place = blank.place
      /\ shown[1].opts = OptionsOf(options, blank.place)
      /\ shown[1].id >= nextRowId
  BY <1>2, <1>4, <1>5, <1>6, <1>7, <1>8, PrepareFacts
<1>10. PICK row : row = shown[1]
  OBVIOUS
<1>11. /\ row \in ShownRows /\ row.id >= nextRowId /\ row.id < nextRowId + 1
       /\ row.opts = OptionsOf(options, row.place)
  <2>1. 1 \in DOMAIN shown /\ shown[1] \in ShownRows
    BY <1>9
  <2>2. shown[1].id < nextRowId + 1
    BY <1>9, <2>1 DEF IdsBelow
  <2>3. shown[1].id >= nextRowId /\ shown[1].opts = OptionsOf(options, shown[1].place)
    BY <1>9
  <2> QED
    BY <1>10, <2>1, <2>2, <2>3
<1>12. PICK longer : longer = Append(rows, row)
  OBVIOUS
<1>13. Edit(longer) /\ nextRowId' = nextRowId + 1
  BY <1>1, <1>3, <1>5, <1>10, <1>12 DEF AddRow
<1>14. /\ longer \in Seq(ShownRows) /\ DOMAIN longer = DOMAIN rows \cup {Len(rows) + 1}
       /\ longer[Len(rows) + 1] = row
       /\ \A i \in DOMAIN rows : longer[i] = rows[i] /\ i # Len(rows) + 1
  BY <1>6, <1>11, <1>12
<1>15. \A i \in DOMAIN rows : rows[i].id \in Nat \ {0} /\ rows[i].id < nextRowId
  <2> SUFFICES ASSUME NEW i \in DOMAIN rows
               PROVE  rows[i].id \in Nat \ {0} /\ rows[i].id < nextRowId
    OBVIOUS
  <2>1. rows[i] \in ShownRows
    BY <1>6
  <2> QED
    BY <1>6, <2>1 DEF IdsBelow, ShownRows
<1>16. row.id \in Nat
  BY <1>11 DEF ShownRows
<1>17. IdsBelow(longer, nextRowId')
  BY <1>6, <1>11, <1>13, <1>14, <1>15, <1>16 DEF IdsBelow
<1>18. IdsApart(longer)
  BY <1>6, <1>11, <1>14, <1>15, <1>16 DEF IdsApart
<1>19. \A i \in DOMAIN longer : longer[i].opts = OptionsOf(options, longer[i].place)
  BY <1>6, <1>11, <1>14 DEF ListsAreCurrent
<1>20. nextRowId' \in Nat \ {0}
  BY <1>6, <1>13
<1> QED
  BY <1>13, <1>14, <1>17, <1>18, <1>19, <1>20, EditKeeps

LEMMA DeleteRowKeeps ==
  ASSUME PageInv, NEW i \in DOMAIN rows, DeleteRow(i) PROVE PageInv'
<1> DEFINE left == DOMAIN rows \ {i}
<1>1. PICK rs : rs = Kept(rows, left)
  OBVIOUS
<1>2. /\ rows \in Seq(ShownRows) /\ nextRowId \in Nat \ {0}
      /\ IdsBelow(rows, nextRowId) /\ IdsApart(rows) /\ ListsAreCurrent
  BY DEF PageInv, TypeOK, OwnIds
<1>3. left \in SUBSET DOMAIN rows
  OBVIOUS
<1>4. Edit(rs) /\ nextRowId' = nextRowId
  BY <1>1 DEF DeleteRow
<1> HIDE DEF left
<1>5. /\ rs \in Seq(ShownRows) /\ DOMAIN rs = 1..Cardinality(left) /\ Cardinality(left) \in Nat
      /\ \A k \in DOMAIN rs :
           InOrder(left)[k] \in DOMAIN rows /\ rs[k] = rows[InOrder(left)[k]]
      /\ \A j, k \in DOMAIN rs : j < k => InOrder(left)[j] < InOrder(left)[k]
  <2>1. /\ rs \in Seq(ShownRows) /\ DOMAIN rs = 1..Cardinality(left) /\ Cardinality(left) \in Nat
        /\ \A k \in 1..Cardinality(left) : InOrder(left)[k] \in left /\ rs[k] = rows[InOrder(left)[k]]
        /\ \A j, k \in 1..Cardinality(left) : j < k => InOrder(left)[j] < InOrder(left)[k]
    <3>1. /\ Kept(rows, left) \in Seq(ShownRows)
          /\ DOMAIN Kept(rows, left) = 1..Cardinality(left)
          /\ Cardinality(left) \in Nat
          /\ \A k \in 1..Cardinality(left) :
               InOrder(left)[k] \in left /\ Kept(rows, left)[k] = rows[InOrder(left)[k]]
          /\ \A j, k \in 1..Cardinality(left) : j < k => InOrder(left)[j] < InOrder(left)[k]
      BY <1>2, <1>3, KeptFacts
    <3> QED
      BY <1>1, <3>1
  <2> QED
    BY <1>3, <2>1
<1>6. IdsBelow(rs, nextRowId)
  BY <1>2, <1>5 DEF IdsBelow
<1>7. IdsApart(rs)
  <2> SUFFICES ASSUME NEW j \in DOMAIN rs, NEW k \in DOMAIN rs, rs[j].id = rs[k].id, rs[k].id # 0
               PROVE  j = k
    BY DEF IdsApart
  <2>1. InOrder(left)[j] = InOrder(left)[k] /\ InOrder(left)[k] \in Int
    BY <1>2, <1>5 DEF IdsApart
  <2>2. ~(j < k) /\ ~(k < j)
    BY <1>5, <2>1
  <2>3. j \in Nat /\ k \in Nat
    BY <1>5
  <2> QED
    BY <2>2, <2>3
<1>8. \A k \in DOMAIN rs : rs[k].opts = OptionsOf(options, rs[k].place)
  BY <1>2, <1>5 DEF ListsAreCurrent
<1> QED
  BY <1>2, <1>4, <1>5, <1>6, <1>7, <1>8, EditKeeps

LEMMA ChangePlaceKeeps ==
  ASSUME PageInv, NEW i \in DOMAIN rows, NEW place \in Places \cup {Blank}, ChangePlace(i, place)
  PROVE  PageInv'
<1>1. rows \in Seq(ShownRows) /\ options \in [Places -> SUBSET Portgroups]
  BY DEF PageInv, TypeOK
<1>2. PICK old \in ShownRows : old = rows[i]
  BY <1>1
<1>3. PICK row : row = [old EXCEPT !.place = place, !.pg = Blank, !.vlan = Blank,
                                   !.opts = OptionsOf(options, place)]
  OBVIOUS
<1>4. OptionsOf(options, place) \in SUBSET Portgroups
  BY <1>1 DEF OptionsOf
<1>5. row \in ShownRows /\ row.id = old.id /\ row.opts = OptionsOf(options, row.place)
  BY <1>2, <1>3, <1>4 DEF ShownRows
<1>6. Edit([rows EXCEPT ![i] = row]) /\ nextRowId' = nextRowId
  BY <1>1, <1>2, <1>3 DEF ChangePlace, ShownRows
<1> QED
  BY <1>2, <1>5, <1>6, RowEdited

LEMMA VlanTyped ==
  ASSUME TypeOK, NEW place, NEW pg, NEW old \in Vlans \cup {Blank}
  PROVE  VlanOf(place, pg, old) \in Vlans \cup {Blank}
<1> DEFINE known == IF inventory = None THEN <<>> ELSE RowsFromInventory(inventory)
           found == {k \in DOMAIN known : known[k].place = place /\ known[k].pg = pg}
<1>1. known \in Seq(FoundRows)
  <2>1. <<>> \in Seq(FoundRows)
    OBVIOUS
  <2>2. inventory # None => inventory \in Seq(InventoryEntries)
    BY NetworksAssumption DEF TypeOK
  <2> QED
    BY <2>1, <2>2, FoundTyped
<1>2. VlanOf(place, pg, old) = IF pg = Blank \/ found = {} THEN old ELSE known[Least(found)].vlan
  BY DEF VlanOf
<1> HIDE DEF known
<1>3. DOMAIN known = 1..Len(known) /\ Len(known) \in Nat
  BY <1>1
<1>4. found \in SUBSET (0..Len(known)) /\ found \in SUBSET DOMAIN known
  BY <1>3
<1> HIDE DEF found
<1>5. found # {} => known[Least(found)] \in FoundRows
  <2> SUFFICES ASSUME found # {} PROVE known[Least(found)] \in FoundRows
    OBVIOUS
  <2>1. Least(found) \in found
    BY <1>3, <1>4, LeastFacts
  <2> QED
    BY <1>1, <1>4, <2>1
<1>6. found # {} => known[Least(found)].vlan \in Vlans \cup {Blank}
  BY <1>5 DEF FoundRows
<1> QED
  BY <1>2, <1>6

LEMMA ChangePgKeeps ==
  ASSUME PageInv, NEW i \in DOMAIN rows, NEW pg \in Portgroups \cup {Blank}, ChangePg(i, pg)
  PROVE  PageInv'
<1>1. rows \in Seq(ShownRows) /\ ListsAreCurrent
  BY DEF PageInv, TypeOK
<1>2. PICK old \in ShownRows : old = rows[i]
  BY <1>1
<1>3. PICK vlan \in Vlans \cup {Blank} : vlan = VlanOf(old.place, pg, old.vlan)
  BY <1>2, VlanTyped DEF PageInv, ShownRows
<1>4. PICK row : row = [old EXCEPT !.pg = pg, !.vlan = vlan]
  OBVIOUS
<1>5. row \in ShownRows /\ row.id = old.id /\ row.place = old.place /\ row.opts = old.opts
  BY <1>2, <1>3, <1>4 DEF ShownRows
<1>6. row.opts = OptionsOf(options, row.place)
  BY <1>1, <1>2, <1>5 DEF ListsAreCurrent
<1>7. Edit([rows EXCEPT ![i] = row]) /\ nextRowId' = nextRowId
  <2>1. [rows EXCEPT ![i].pg = pg, ![i].vlan = VlanOf(rows[i].place, pg, @)] = [rows EXCEPT ![i] = row]
    BY <1>1, <1>2, <1>3, <1>4 DEF ShownRows
  <2> QED
    BY <2>1 DEF ChangePg
<1> QED
  BY <1>2, <1>5, <1>6, <1>7, RowEdited

LEMMA ChangeDataKeeps ==
  ASSUME PageInv, NEW i \in DOMAIN rows, NEW data \in Data \cup {Blank}, ChangeData(i, data)
  PROVE  PageInv'
<1>1. rows \in Seq(ShownRows) /\ ListsAreCurrent
  BY DEF PageInv, TypeOK
<1>2. PICK old \in ShownRows : old = rows[i]
  BY <1>1
<1>3. PICK row : row = [old EXCEPT !.data = data]
  OBVIOUS
<1>4. row \in ShownRows /\ row.id = old.id /\ row.place = old.place /\ row.opts = old.opts
  BY <1>2, <1>3 DEF ShownRows
<1>5. row.opts = OptionsOf(options, row.place)
  BY <1>1, <1>2, <1>4 DEF ListsAreCurrent
<1>6. Edit([rows EXCEPT ![i] = row]) /\ nextRowId' = nextRowId
  BY <1>1, <1>2, <1>3 DEF ChangeData
<1> QED
  BY <1>2, <1>4, <1>5, <1>6, RowEdited

\* Steps that leave the rows and their lists alone.
LEMMA RowsAlone ==
  ASSUME PageInv, UNCHANGED <<rows, nextRowId, options>>
  PROVE  OwnIds' /\ ListsAreCurrent'
BY DEF PageInv, OwnIds, IdsBelow, IdsApart, ListsAreCurrent, OptionsOf

LEMMA RequestsKeep ==
  ASSUME PageInv, LoadServed \/ ImportFile \/ SaveClick \/ SaveServed
  PROVE  PageInv'
<1>1. /\ UNCHANGED <<rows, nextRowId, inventory, options, sync, authVars>>
      /\ UNCHANGED edits \/ (edits < MaxEdits /\ edits' = edits + 1)
  BY DEF LoadServed, ImportFile, SaveClick, SaveServed
<1>2. AuthTypeOK' /\ edits' \in 0..MaxEdits
  BY <1>1, NetworksAssumption DEF PageInv, TypeOK, AuthTypeOK, authVars
<1>3. load'.state \in {"sent", "answered", "done"} /\ (load'.state = "answered" => load'.value \in Tables \cup {<<>>})
  BY DEF PageInv, TypeOK, LoadServed, ImportFile, SaveClick, SaveServed, Answer
<1>4. import'.state \in {"idle", "answered"} /\ (import'.state = "answered" => import'.value \in Files)
  BY DEF PageInv, TypeOK, LoadServed, ImportFile, SaveClick, SaveServed, Answer
<1>5. save'.state \in {"idle", "sent"}
  BY DEF PageInv, TypeOK, LoadServed, ImportFile, SaveClick, SaveServed, Idle
<1>6. stored' \in Tables \cup {<<>>}
  <2>1. Bare(<<>>) = <<>>
    BY DEF Bare
  <2> QED
    BY <2>1 DEF PageInv, TypeOK, LoadServed, ImportFile, SaveClick, SaveServed, Accepted
<1>7. TypeOK'
  BY <1>1, <1>2, <1>3, <1>4, <1>5, <1>6 DEF PageInv, TypeOK
<1> QED
  BY <1>1, <1>7, RowsAlone DEF PageInv

LEMMA TableAnswered ==
  ASSUME PageInv, LoadAnswered \/ ImportAnswered
  PROVE  PageInv'
<1>1. PICK table \in Tables \cup Files \cup {<<>>} : Show(table, options)
  BY DEF PageInv, TypeOK, LoadAnswered, ImportAnswered
<1>2. table \in Seq(BareRows) /\ IdsBelow(table, nextRowId) /\ IdsApart(table)
  BY <1>1, StoredFacts DEF PageInv
<1>3. /\ UNCHANGED <<inventory, options, sync, save, stored, edits, authVars>>
      /\ options \in [Places -> SUBSET Portgroups]
  BY DEF LoadAnswered, ImportAnswered, PageInv, TypeOK
<1>4. /\ rows' \in Seq(ShownRows) /\ nextRowId' \in Nat \ {0}
      /\ OwnIds' /\ ListsAreCurrent'
  BY <1>1, <1>2, <1>3, ShownFacts DEF PageInv
<1>5. /\ load'.state \in {"sent", "answered", "done"}
      /\ load'.state = "answered" => load'.value \in Tables \cup {<<>>}
      /\ import'.state \in {"idle", "answered"} /\ (import'.state = "answered" => import'.value \in Files)
  BY DEF PageInv, TypeOK, LoadAnswered, ImportAnswered, State, Idle
<1>6. AuthTypeOK'
  BY <1>3 DEF PageInv, TypeOK, AuthTypeOK, authVars
<1>7. TypeOK'
  BY <1>3, <1>4, <1>5, <1>6 DEF PageInv, TypeOK
<1> QED
  BY <1>4, <1>7 DEF PageInv

LEMMA SyncSteps ==
  ASSUME PageInv, SyncClick \/ SyncResumes \/ InventoryServed
  PROVE  PageInv'
<1>1. /\ UNCHANGED <<rows, nextRowId, inventory, options, load, import, save, stored, authVars>>
      /\ UNCHANGED edits \/ (edits < MaxEdits /\ edits' = edits + 1)
      /\ sync' \in {State("asked"), State("waiting"), Idle} \cup {Answer(inv) : inv \in Inventories}
  BY DEF SyncClick, SyncResumes, InventoryServed, SyncGoesTo
<1>2. AuthTypeOK' /\ edits' \in 0..MaxEdits
  BY <1>1, NetworksAssumption DEF PageInv, TypeOK, AuthTypeOK, authVars
<1>3. /\ sync'.state \in {"idle", "waiting", "asked", "answered"}
      /\ sync'.state = "answered" => sync'.value \in Inventories
  BY <1>1 DEF State, Idle, Answer
<1>4. TypeOK'
  BY <1>1, <1>2, <1>3 DEF PageInv, TypeOK
<1> QED
  BY <1>1, <1>4, RowsAlone DEF PageInv

LEMMA InventoryKeeps ==
  ASSUME PageInv, InventoryAnswered
  PROVE  PageInv'
<1>1. PICK inv \in Inventories : inv = sync.value
  BY DEF PageInv, TypeOK, InventoryAnswered
<1>2. PICK merged : /\ merged = MergeRows(Bare(rows), RowsFromInventory(inv))
                    /\ Show(merged, OptionsFrom(inv))
  BY <1>1 DEF InventoryAnswered, ListsForSync
<1>3. /\ options' = OptionsFrom(inv) /\ inventory' = inv /\ sync' = Idle
      /\ UNCHANGED <<load, import, save, stored, edits, authVars>>
  BY <1>1 DEF InventoryAnswered
<1>4. OptionsFrom(inv) \in [Places -> SUBSET Portgroups]
  BY OptionsTyped, NetworksAssumption
<1>5. merged \in Seq(BareRows) /\ IdsBelow(merged, nextRowId) /\ IdsApart(merged)
  BY <1>2, SyncFacts
<1>6. /\ rows' \in Seq(ShownRows) /\ nextRowId' \in Nat \ {0}
      /\ OwnIds' /\ ListsAreCurrent'
  BY <1>2, <1>3, <1>4, <1>5, ShownFacts DEF PageInv
<1>7. AuthTypeOK' /\ sync'.state = "idle"
  BY <1>3 DEF PageInv, TypeOK, AuthTypeOK, authVars, Idle
<1>8. TypeOK'
  BY <1>3, <1>4, <1>6, <1>7 DEF PageInv, TypeOK
<1> QED
  BY <1>6, <1>8 DEF PageInv

LEMMA NextPage == PageInv /\ [Next]_vars => PageInv'
<1> SUFFICES ASSUME PageInv, [Next]_vars PROVE PageInv'
  OBVIOUS
<1>1. CASE UserNext
  <2>1. CASE ImportFile \/ SaveClick
    BY <2>1, RequestsKeep
  <2>2. CASE SyncClick
    BY <2>2, SyncSteps
  <2>3. CASE AddRow
    BY <2>3, AddRowKeeps
  <2>4. ASSUME NEW i \in DOMAIN rows,
               \/ DeleteRow(i)
               \/ \E place \in Places \cup {Blank} : ChangePlace(i, place)
               \/ \E pg \in Portgroups \cup {Blank} : ChangePg(i, pg)
               \/ \E data \in Data \cup {Blank} : ChangeData(i, data)
        PROVE  PageInv'
    BY <2>4, DeleteRowKeeps, ChangePlaceKeeps, ChangePgKeeps, ChangeDataKeeps
  <2> QED
    BY <1>1, <2>1, <2>2, <2>3, <2>4 DEF UserNext
<1>2. CASE SyncNext
  BY <1>2, SyncSteps, InventoryKeeps DEF SyncNext
<1>3. CASE AnswerNext
  BY <1>3, RequestsKeep, TableAnswered DEF AnswerNext
<1>4. CASE AuthStep /\ UNCHANGED pageVars
  <2>1. AuthTypeOK'
    BY <1>4, AuthStepTyped DEF PageInv, TypeOK
  <2>2. TypeOK'
    BY <1>4, <2>1 DEF PageInv, TypeOK, pageVars
  <2> QED
    BY <1>4, <2>2, RowsAlone DEF PageInv, pageVars
<1>5. CASE UNCHANGED vars
  <2>1. TypeOK'
    BY <1>5 DEF PageInv, TypeOK, vars, pageVars, authVars, AuthTypeOK
  <2> QED
    BY <1>5, <2>1, RowsAlone DEF PageInv, vars, pageVars
<1> QED
  BY <1>1, <1>2, <1>3, <1>4, <1>5 DEF Next

\* The rows, lists, requests and the identity of the page "Input Networks" stay well formed
\* (input-networks.component.ts, plugin-context.service.ts).
THEOREM PageTyped == Spec => []TypeOK
<1>1. PageInv => TypeOK
  BY DEF PageInv
<1> QED
  BY <1>1, InitPage, NextPage, PTL DEF Spec

\* The portgroups a row offers are those of its place in the inventory synced last, whatever
\* is loaded, imported, added or edited in between (prepareRows, refreshRowDerived).
THEOREM ListsCurrent == Spec => []ListsAreCurrent
<1>1. PageInv => ListsAreCurrent
  BY DEF PageInv
<1> QED
  BY <1>1, InitPage, NextPage, PTL DEF Spec

\* A sync leaves every row of the table there once, under its id, at its place and with the
\* data the user has entered (_mergeRowsWithInventory, _mergeRow).
THEOREM UserRowsKept == Spec => SyncKeepsUserRows
<1>1. ASSUME PageInv, [Next]_vars, Synced
      PROVE  \A i \in DOMAIN rows : \E j \in DOMAIN rows' :
               /\ {k \in DOMAIN rows' : rows'[k].id = rows[i].id} = {j}
               /\ rows'[j].place = rows[i].place
               /\ rows[i].data # Blank => rows'[j].data = rows[i].data
  <2>1. InventoryAnswered
    <3>1. sync.state = "answered" /\ sync' = Idle /\ sync # Idle /\ sync' # sync
      BY <1>1 DEF Synced, Idle
    <3> QED
      BY <1>1, <3>1
      DEF Next, UserNext, SyncNext, AnswerNext, vars, pageVars, ImportFile, SaveClick, SyncClick, AddRow,
          DeleteRow, ChangePlace, ChangePg, ChangeData, Edit, SyncResumes, InventoryServed, LoadServed,
          LoadAnswered, ImportAnswered, SaveServed
  <2>2. PICK inv \in Inventories : inv = sync.value
    BY <1>1, <2>1 DEF PageInv, TypeOK, InventoryAnswered
  <2>3. PICK merged : /\ merged = MergeRows(Bare(rows), RowsFromInventory(inv))
                      /\ Show(merged, OptionsFrom(inv))
    BY <2>1, <2>2 DEF InventoryAnswered, ListsForSync
  <2>4. /\ merged \in Seq(BareRows) /\ IdsBelow(merged, nextRowId) /\ IdsApart(merged)
        /\ \A i \in DOMAIN rows : \E j \in DOMAIN merged :
             /\ merged[j].id = rows[i].id /\ merged[j].place = rows[i].place
             /\ rows[i].data # Blank => merged[j].data = rows[i].data
    BY <1>1, <2>2, <2>3, SyncFacts
  <2>5. PICK shown : shown = Prepare(merged, OptionsFrom(inv)) /\ rows' = shown
    BY <2>3 DEF Show
  <2>6. nextRowId \in Nat \ {0} /\ OptionsFrom(inv) \in [Places -> SUBSET Portgroups]
    BY <1>1, OptionsTyped, NetworksAssumption DEF PageInv, TypeOK
  <2>7. /\ DOMAIN shown = DOMAIN merged /\ IdsApart(shown)
        /\ \A j \in DOMAIN merged :
             /\ shown[j].place = merged[j].place /\ shown[j].data = merged[j].data
             /\ merged[j].id # 0 => shown[j].id = merged[j].id
    BY <2>4, <2>5, <2>6, PrepareFacts
  <2> SUFFICES ASSUME NEW i \in DOMAIN rows
               PROVE  \E j \in DOMAIN rows' :
                        /\ {k \in DOMAIN rows' : rows'[k].id = rows[i].id} = {j}
                        /\ rows'[j].place = rows[i].place
                        /\ rows[i].data # Blank => rows'[j].data = rows[i].data
    OBVIOUS
  <2>8. rows[i].id # 0
    <3>1. rows \in Seq(ShownRows)
      BY <1>1 DEF PageInv, TypeOK
    <3>2. rows[i] \in ShownRows
      BY <3>1
    <3> QED
      BY <3>2 DEF ShownRows
  <2>9. PICK j \in DOMAIN merged :
          /\ merged[j].id = rows[i].id /\ merged[j].place = rows[i].place
          /\ rows[i].data # Blank => merged[j].data = rows[i].data
    BY <2>4
  <2>10. /\ shown[j].id = rows[i].id /\ shown[j].place = rows[i].place
         /\ rows[i].data # Blank => shown[j].data = rows[i].data
    BY <2>7, <2>8, <2>9
  <2>11. {k \in DOMAIN shown : shown[k].id = rows[i].id} = {j}
    BY <2>7, <2>8, <2>9, <2>10 DEF IdsApart
  <2> QED
    BY <2>5, <2>7, <2>9, <2>10, <2>11
<1> QED
  BY <1>1, InitPage, NextPage, PTL DEF Spec, SyncKeepsUserRows

-----------------------------------------------------------------------------
(***************************************************************************)
(* Syncing twice                                                           *)
(***************************************************************************)

\* Rows of the inventory at one place differ in what they are matched by.
ToldApart(found) ==
  \A i, j \in 1..Len(found) :
    i # j /\ found[i].place = found[j].place => found[i].pg # found[j].pg /\ found[i].vlan # found[j].vlan

LEMMA SeparateDistinct ==
  ASSUME NEW inv \in Seq(InventoryEntries), Separate(inv)
  PROVE  ToldApart(RowsFromInventory(inv))
<1>1. PICK found : found = RowsFromInventory(inv)
  OBVIOUS
<1>2. Len(found) = Len(inv) /\ DOMAIN inv = 1..Len(inv)
  BY <1>1, FoundTyped
<1>3. ASSUME NEW i \in 1..Len(inv)
      PROVE  /\ inv[i] \in InventoryEntries
             /\ found[i].place = inv[i].place /\ found[i].pg = inv[i].pg
             /\ found[i].vlan = IF inv[i].vlan = Untagged THEN Blank ELSE inv[i].vlan
  BY <1>1, <1>2 DEF RowsFromInventory, Row
<1>4. ASSUME NEW i \in 1..Len(inv), NEW j \in 1..Len(inv), inv[i].vlan # inv[j].vlan
      PROVE  found[i].vlan # found[j].vlan
  <2>1. inv[i].vlan \in Vlans \cup {Untagged} /\ inv[j].vlan \in Vlans \cup {Untagged} /\ Blank \notin Vlans
    BY <1>3, NetworkMergeAssumption DEF InventoryEntries
  <2> QED
    BY <1>3, <1>4, <2>1
<1> QED
  BY <1>1, <1>2, <1>3, <1>4 DEF ToldApart, Separate

LEMMA KeyMeans ==
  ASSUME NEW l \in 1..4, NEW a, NEW b
  PROVE  SameKey(a, b, MatchKeys[l]) <=>
           /\ a.place = b.place
           /\ l \in {1, 3} => a.pg = b.pg
           /\ l \in {1, 2} => a.vlan = b.vlan
<1>1. CASE l = 1
  BY <1>1, KeysListed DEF SameKey
<1>2. CASE l = 2
  BY <1>2, KeysListed DEF SameKey
<1>3. CASE l = 3
  BY <1>3, KeysListed DEF SameKey
<1>4. CASE l = 4
  BY <1>4, KeysListed DEF SameKey
<1> QED
  BY <1>1, <1>2, <1>3, <1>4

\* A merged row matches its row of the inventory as it did before, ...
LEMMA KeyStays ==
  ASSUME NEW old \in BareRows, NEW new \in FoundRows, NEW l \in 1..4, SameKey(old, new, MatchKeys[l])
  PROVE  SameKey(MergeRow(old, new), new, MatchKeys[l])
<1>1. /\ old.place = new.place
      /\ l \in {1, 3} => old.pg = new.pg
      /\ l \in {1, 2} => old.vlan = new.vlan
  BY KeyMeans
<1>2. /\ MergeRow(old, new).place = new.place
      /\ l \in {1, 3} => MergeRow(old, new).pg = new.pg
      /\ l \in {1, 2} => MergeRow(old, new).vlan = new.vlan
  BY <1>1, MergeRowTyped DEF Or
<1> QED
  BY <1>2, KeyMeans

\* ... and no other in a way it did not before.
LEMMA NoKeyWon ==
  ASSUME NEW old \in BareRows, NEW new \in FoundRows, NEW other \in FoundRows,
         new.pg # other.pg, new.vlan # other.vlan,
         NEW l \in 1..4, SameKey(MergeRow(old, new), other, MatchKeys[l])
  PROVE  SameKey(old, other, MatchKeys[l])
<1>1. /\ MergeRow(old, new).place = other.place
      /\ l \in {1, 3} => MergeRow(old, new).pg = other.pg
      /\ l \in {1, 2} => MergeRow(old, new).vlan = other.vlan
  BY KeyMeans
<1>2. /\ old.place = other.place
      /\ l \in {1, 3} => old.pg = other.pg
      /\ l \in {1, 2} => old.vlan = other.vlan
  BY <1>1, MergeRowTyped DEF Or
<1> QED
  BY <1>2, KeyMeans

LEMMA MergeAgain ==
  ASSUME NEW old \in BareRows, NEW new \in FoundRows
  PROVE  MergeRow(MergeRow(old, new), new) = MergeRow(old, new) /\ MergeRow(new, new) = new
<1>1. PICK merged \in BareRows : merged = MergeRow(old, new)
  BY MergeRowTyped
<1>2. /\ merged.pg = Or(old.pg, new.pg)
      /\ merged.data = Or(old.data, new.data)
      /\ merged.vlan = IF Or(old.pg, new.pg) # Blank /\ Or(old.pg, new.pg) = new.pg THEN new.vlan
                       ELSE Or(old.vlan, new.vlan)
  BY <1>1, MergeRowTyped
<1>3. /\ Or(merged.pg, new.pg) = merged.pg
      /\ Or(merged.data, new.data) = merged.data
      /\ (IF merged.pg # Blank /\ merged.pg = new.pg THEN new.vlan ELSE Or(merged.vlan, new.vlan)) = merged.vlan
  BY <1>2 DEF Or
<1>4. MergeRow(merged, new) = Row(merged.place, merged.pg, merged.vlan, merged.data, merged.id)
  BY <1>3 DEF MergeRow
<1>5. Row(merged.place, merged.pg, merged.vlan, merged.data, merged.id) = merged
  BY <1>1 DEF Row, BareRows
<1>6. /\ Or(new.pg, new.pg) = new.pg /\ Or(new.vlan, new.vlan) = new.vlan /\ Or(new.data, new.data) = new.data
  BY DEF Or
<1>7. MergeRow(new, new) = Row(new.place, new.pg, new.vlan, new.data, new.id)
  BY <1>6 DEF MergeRow
<1>8. Row(new.place, new.pg, new.vlan, new.data, new.id) = new
  BY DEF Row, FoundRows
<1> QED
  BY <1>1, <1>4, <1>5, <1>7, <1>8

\* A run of numbers in order.
LEMMA InOrderInterval ==
  ASSUME NEW a \in Nat, NEW b \in Nat
  PROVE  /\ Cardinality((a + 1)..(a + b)) = b
         /\ \A q \in 1..b : InOrder((a + 1)..(a + b))[q] = a + q
<1> DEFINE S == (a + 1)..(a + b)
<1>1. IsFiniteSet(S) /\ Cardinality(S) = b /\ S \in SUBSET Int
  <2>1. a + 1 \in Int /\ a + b \in Int
    OBVIOUS
  <2>2. IsFiniteSet(S) /\ Cardinality(S) = IF a + 1 > a + b THEN 0 ELSE (a + b) - (a + 1) + 1
    BY <2>1, FS_Interval
  <2> QED
    BY <2>2
<1>2. ASSUME NEW q \in 1..b PROVE InOrder(S)[q] = a + q
  <2>1. a + q \in S /\ Rank(S, a + q) = q - 1
    <3>1. {m \in S : m < a + q} = (a + 1)..(a + q - 1)
      BY <1>2
    <3>2. a + 1 \in Int /\ a + q - 1 \in Int
      BY <1>2
    <3>3. Cardinality((a + 1)..(a + q - 1)) = IF a + 1 > a + q - 1 THEN 0 ELSE (a + q - 1) - (a + 1) + 1
      BY <3>2, FS_Interval
    <3>4. Cardinality((a + 1)..(a + q - 1)) = q - 1
      BY <1>2, <3>3
    <3>5. a + q \in S
      BY <1>2
    <3> HIDE DEF S
    <3>6. Rank(S, a + q) = q - 1
      BY <3>1, <3>4 DEF Rank
    <3> QED
      BY <3>5, <3>6
  <2> HIDE DEF S
  <2>2. InOrder(S)[q] = CHOOSE n \in S : Rank(S, n) = q - 1
    BY <1>1, <1>2 DEF InOrder, Rank
  <2>3. InOrder(S)[q] \in S /\ Rank(S, InOrder(S)[q]) = Rank(S, a + q)
    BY <2>1, <2>2
  <2>4. PICK n \in S : n = InOrder(S)[q] /\ Rank(S, n) = Rank(S, a + q)
    BY <2>3
  <2>5. Rank(S, a + q) \in Int
    BY <1>2, <2>1
  <2>6. ~(n < a + q) /\ ~(a + q < n)
    BY <1>1, <2>1, <2>4, <2>5, RankGrows
  <2>7. n \in Int /\ a + q \in Int
    BY <1>1, <2>1
  <2> QED
    BY <2>4, <2>6, <2>7
<1> QED
  BY <1>1, <1>2

\* The best match of each row of the inventory is, the second time, what was made of it the
\* first time: no row further down matches better, for what it has of its own inventory row
\* matches no other, and what it had before did not match better then.
LEMMA BestIsOwn ==
  ASSUME NEW existing \in Seq(BareRows), NEW found \in Seq(FoundRows), ToldApart(found),
         NEW m \in Matchings(existing, found),
         NEW once, once = MergedBy(m, existing, found),
         NEW k \in 1..Len(found)
  PROVE  BestMatch(once, 1..(k - 1), found[k]) = k
<1> DEFINE n == Len(found)
           others == Others(existing, m)
           q == Cardinality(others)
           Mine(l) == SameKey(once[k], found[k], MatchKeys[l])
           mine == {l \in 1..4 : Mine(l)}
<1>1. /\ once \in Seq(BareRows) /\ n \in Nat /\ q \in Nat /\ DOMAIN once = 1..(n + q)
      /\ \A j \in 1..n : found[j] \in FoundRows
      /\ \A i \in DOMAIN existing : existing[i] \in BareRows
      /\ DOMAIN existing = 1..Len(existing) /\ Len(existing) \in Nat
  <2>1. once \in Seq(BareRows) /\ q \in Nat /\ Len(once) = n + q
    BY MergedFacts
  <2> HIDE DEF q
  <2> QED
    BY <2>1
<1>2. \A j \in 1..n : once[j] = IF m[j] = 0 THEN found[j] ELSE MergeRow(existing[m[j]], found[j])
  BY MergedFacts
<1>3. \A p \in 1..q : InOrder(others)[p] \in others /\ once[n + p] = existing[InOrder(others)[p]]
  BY MergedFacts
<1>4. /\ DOMAIN m = 1..n
      /\ \A j \in 1..n : m[j] # 0 => m[j] \in DOMAIN existing /\ existing[m[j]].place = found[j].place
      /\ \A i, j \in 1..n : m[i] = m[j] /\ m[j] # 0 => i = j
      /\ \A i \in others : i \in DOMAIN existing /\ \A j \in 1..n : m[j] # i
  BY MatchingFacts, SMTT(30) DEF Others
<1>5. m[k] = BestMatch(existing, Used(m, k), found[k])
  BY DEF Matchings
<1> HIDE DEF others, q, n
<1>k. k \in 1..n /\ k \in DOMAIN once
  BY <1>1 DEF n
\* At what level it matches its own row: at the first if it is that row.
<1>6. PICK own \in 1..4 :
        /\ Mine(own) /\ \A l \in 1..4 : l < own => ~Mine(l)
        /\ m[k] = 0 => own = 1
        /\ m[k] # 0 => \A l \in 1..4 : l < own =>
             Candidates(existing, Used(m, k), found[k], MatchKeys[l]) = {}
  <2>1. CASE m[k] = 0
    <3>1. once[k] = found[k]
      BY <1>2, <1>k, <2>1
    <3>2. SameKey(once[k], found[k], MatchKeys[1])
      BY <3>1 DEF SameKey
    <3> QED
      BY <2>1, <3>2
  <2>2. CASE m[k] # 0
    <3>1. PICK old \in BareRows, new \in FoundRows : old = existing[m[k]] /\ new = found[k]
      BY <1>1, <1>4, <1>k, <2>2
    <3>2. once[k] = MergeRow(old, new)
      BY <1>2, <1>k, <2>2, <3>1
    <3>3. PICK level \in 1..4 :
            /\ m[k] \in Candidates(existing, Used(m, k), found[k], MatchKeys[level])
            /\ \A l \in 1..4 : l < level => Candidates(existing, Used(m, k), found[k], MatchKeys[l]) = {}
      BY <1>5, <2>2, BestMatchFacts
    <3>4. SameKey(old, new, MatchKeys[level])
      BY <3>1, <3>3 DEF Candidates
    <3>5. Mine(level)
      BY <3>1, <3>2, <3>4, KeyStays
    <3>6. level \in mine /\ mine \in SUBSET (0..4)
      BY <3>5
    <3>7. Least(mine) \in mine /\ \A l \in mine : Least(mine) <= l
      BY <3>6, LeastFacts
    <3>8. PICK least \in 1..4 : least = Least(mine) /\ Mine(least)
      BY <3>7
    <3>9. least <= level /\ \A l \in 1..4 : l < least => ~Mine(l)
      <4>1. \A l \in 1..4 : Mine(l) => least <= l
        <5> SUFFICES ASSUME NEW l \in 1..4, Mine(l) PROVE least <= l
          OBVIOUS
        <5>1. l \in mine
          OBVIOUS
        <5> HIDE DEF mine
        <5> QED
          BY <3>7, <3>8, <5>1
      <4> HIDE DEF Mine
      <4> QED
        BY <3>5, <4>1
    <3> HIDE DEF Mine
    <3> QED
      BY <2>2, <3>3, <3>8, <3>9
  <2> QED
    BY <2>1, <2>2
\* Nothing below matches at an earlier level.
<1>7. ASSUME NEW l \in 1..4, l < own, NEW i \in DOMAIN once, ~(i \in 1..(k - 1)),
             SameKey(once[i], found[k], MatchKeys[l])
      PROVE  FALSE
  <2>1. m[k] # 0 /\ Candidates(existing, Used(m, k), found[k], MatchKeys[l]) = {}
    BY <1>6, <1>7
  <2>2. i # k
    BY <1>6, <1>7
  <2>3. i \in 1..(n + q) /\ i > k
    BY <1>1, <1>7, <1>k, <2>2
  <2>4. \A c \in DOMAIN existing : c \notin Used(m, k) => ~SameKey(existing[c], found[k], MatchKeys[l])
    BY <2>1 DEF Candidates
  <2>5. l \in 1..3
    BY <1>6, <1>7
  <2>6. CASE i \in 1..n
    <3>1. /\ found[i] \in FoundRows /\ found[k] \in FoundRows
          /\ found[i].place = found[k].place =>
               found[i].pg # found[k].pg /\ found[i].vlan # found[k].vlan
      BY <1>1, <1>k, <2>2, <2>6 DEF ToldApart, n
    <3>2. CASE m[i] = 0
      <4>1. SameKey(found[i], found[k], MatchKeys[l])
        BY <1>2, <1>7, <2>6, <3>2
      <4>2. /\ found[i].place = found[k].place
            /\ found[i].pg = found[k].pg \/ found[i].vlan = found[k].vlan
        BY <2>5, <4>1, KeyMeans
      <4> QED
        BY <3>1, <4>2
    <3>3. CASE m[i] # 0
      <4>1. m[i] \in DOMAIN existing /\ existing[m[i]].place = found[i].place
        BY <1>4, <2>6, <3>3
      <4>2. PICK old \in BareRows, new \in FoundRows, other \in FoundRows :
              old = existing[m[i]] /\ new = found[i] /\ other = found[k]
        BY <1>1, <3>1, <4>1
      <4>3. SameKey(MergeRow(old, new), other, MatchKeys[l])
        BY <1>2, <1>7, <2>6, <3>3, <4>2
      <4>4. MergeRow(old, new).place = other.place /\ MergeRow(old, new).place = old.place
        BY <4>3, KeyMeans, MergeRowTyped, SMTT(20)
      <4>5. new.pg # other.pg /\ new.vlan # other.vlan
        BY <3>1, <4>1, <4>2, <4>4
      <4>6. SameKey(old, other, MatchKeys[l])
        BY <4>3, <4>5, NoKeyWon
      <4>7. m[i] \notin Used(m, k)
        <5>1. \A j \in 1..(k - 1) : j \in 1..n /\ j # i
          BY <1>1, <1>k, <2>3
        <5>2. \A j \in 1..(k - 1) : m[j] # m[i]
          BY <1>4, <2>6, <3>3, <5>1
        <5> QED
          BY <5>2 DEF Used
      <4> QED
        BY <2>4, <4>1, <4>2, <4>6, <4>7
    <3> QED
      BY <3>2, <3>3
  <2>7. CASE ~(i \in 1..n)
    <3>1. i - n \in 1..q /\ n + (i - n) = i
      BY <1>1, <2>3, <2>7
    <3>2. PICK c : c = InOrder(others)[i - n] /\ c \in others /\ once[i] = existing[c]
      BY <1>3, <3>1
    <3>3. c \in DOMAIN existing /\ \A j \in 1..n : m[j] # c
      BY <1>4, <3>2
    <3>4. c \notin Used(m, k)
      <4>1. \A j \in 1..(k - 1) : j \in 1..n
        BY <1>1, <1>k
      <4> QED
        BY <3>3, <4>1 DEF Used
    <3> QED
      BY <1>7, <2>4, <3>2, <3>3, <3>4
  <2> QED
    BY <2>6, <2>7
<1>8. k \in Candidates(once, 1..(k - 1), found[k], MatchKeys[own])
  <2>1. k \notin 1..(k - 1)
    BY <1>1, <1>k
  <2> QED
    BY <1>6, <1>k, <2>1 DEF Candidates
<1>9. \A l \in 1..4 : l < own => Candidates(once, 1..(k - 1), found[k], MatchKeys[l]) = {}
  BY <1>7 DEF Candidates
<1>10. \A y \in DOMAIN once \ (1..(k - 1)) : k <= y
  BY <1>1, <1>k
<1> HIDE DEF Mine
<1> QED
  BY <1>1, <1>8, <1>9, <1>10, <1>k, BestMatchIs

\* So every row of the inventory is matched with its own: there is no first that is not.
LEMMA OwnMatching ==
  ASSUME NEW existing \in Seq(BareRows), NEW found \in Seq(FoundRows), ToldApart(found),
         NEW m \in Matchings(existing, found),
         NEW once, once = MergedBy(m, existing, found), once \in Seq(BareRows),
         NEW again \in Matchings(once, found)
  PROVE  \A k \in 1..Len(found) : again[k] = k
<1> DEFINE n == Len(found)
           other == {k \in 1..n : again[k] # k}
<1>1. /\ DOMAIN again = 1..n /\ n \in Nat /\ DOMAIN found = 1..n
      /\ \A k \in 1..n : again[k] = BestMatch(once, Used(again, k), found[k])
  BY DEF Matchings
<1>2. \A k \in 1..n : BestMatch(once, 1..(k - 1), found[k]) = k
  BY BestIsOwn
<1>3. other = {}
  <2> SUFFICES ASSUME other # {} PROVE FALSE
    OBVIOUS
  <2>1. other \in SUBSET (0..n)
    BY <1>1
  <2>2. Least(other) \in other /\ \A j \in other : Least(other) <= j
    BY <1>1, <2>1, LeastFacts
  <2>3. PICK k \in 1..n : k = Least(other) /\ again[k] # k
    BY <2>2
  <2>4. ASSUME NEW j \in 1..(k - 1) PROVE again[j] = j
    <3>1. j \in 1..n /\ ~(k <= j)
      BY <1>1, <2>4
    <3>2. j \notin other
      BY <2>2, <2>3, <3>1
    <3> QED
      BY <3>1, <3>2
  <2>5. Used(again, k) = 1..(k - 1)
    BY <2>4 DEF Used
  <2> QED
    BY <1>1, <1>2, <2>3, <2>5
<1> QED
  BY <1>3

\* Merging with the same rows of an inventory again changes nothing.
LEMMA MergeTwice ==
  ASSUME NEW existing \in Seq(BareRows), NEW found \in Seq(FoundRows), ToldApart(found)
  PROVE  MergeRows(MergeRows(existing, found), found) = MergeRows(existing, found)
<1>1. PICK m \in Matchings(existing, found) : MergeRows(existing, found) = MergedBy(m, existing, found)
  BY MergeRowsIs
<1>2. PICK once : once = MergeRows(existing, found) /\ once = MergedBy(m, existing, found)
  BY <1>1
<1>3. once \in Seq(BareRows)
  BY <1>2, MergedFacts
<1>4. PICK again \in Matchings(once, found) : MergeRows(once, found) = MergedBy(again, once, found)
  BY <1>3, MergeRowsIs
<1>5. PICK twice : twice = MergeRows(once, found) /\ twice = MergedBy(again, once, found)
  BY <1>4
<1>6. \A k \in 1..Len(found) : again[k] = k
  BY <1>2, <1>3, OwnMatching
<1>7. PICK n \in Nat : n = Len(found)
  OBVIOUS
<1>8. PICK q \in Nat : Len(once) = n + q
  <2>1. /\ Cardinality(Others(existing, m)) \in Nat
        /\ Len(once) = Len(found) + Cardinality(Others(existing, m))
    BY <1>2, MergedFacts
  <2> QED
    BY <1>7, <2>1
<1>9. DOMAIN once = 1..(n + q)
  BY <1>3, <1>8
<1>10. Others(once, again) = (n + 1)..(n + q)
  <2>1. DOMAIN again = 1..n
    BY <1>3, <1>4, <1>7, MatchingFacts
  <2>2. {again[k] : k \in DOMAIN again} = 1..n
    BY <1>6, <1>7, <2>1
  <2> QED
    BY <1>9, <2>2 DEF Others
<1>11. /\ Cardinality(Others(once, again)) = q
       /\ \A p \in 1..q : InOrder(Others(once, again))[p] = n + p
  BY <1>10, InOrderInterval
<1>12. /\ twice \in Seq(BareRows) /\ Len(twice) = n + q
       /\ \A k \in 1..n : twice[k] = IF again[k] = 0 THEN found[k] ELSE MergeRow(once[again[k]], found[k])
       /\ \A p \in 1..q : twice[n + p] = once[InOrder(Others(once, again))[p]]
  <2>1. /\ twice \in Seq(BareRows)
        /\ Len(twice) = Len(found) + Cardinality(Others(once, again))
    BY <1>3, <1>5, MergedFacts
  <2>2. \A k \in 1..Len(found) :
          twice[k] = IF again[k] = 0 THEN found[k] ELSE MergeRow(once[again[k]], found[k])
    BY <1>3, <1>5, MergedFacts, SMTT(20)
  <2>3. \A p \in 1..Cardinality(Others(once, again)) :
          twice[Len(found) + p] = once[InOrder(Others(once, again))[p]]
    BY <1>3, <1>5, MergedFacts, SMTT(20)
  <2> QED
    BY <1>7, <1>11, <2>1, <2>2, <2>3
<1>13. \A p \in 1..q : twice[n + p] = once[n + p]
  BY <1>11, <1>12
<1>14. ASSUME NEW k \in 1..n PROVE twice[k] = once[k]
  <2>1. twice[k] = MergeRow(once[k], found[k])
    <3>1. again[k] = k /\ k # 0
      BY <1>6, <1>7, <1>14
    <3> QED
      BY <1>12, <3>1
  <2>2. once[k] = IF m[k] = 0 THEN found[k] ELSE MergeRow(existing[m[k]], found[k])
    BY <1>2, <1>7, MergedFacts
  <2>3. PICK new \in FoundRows : new = found[k]
    BY <1>7
  <2>4. CASE m[k] = 0
    <3>1. new \in BareRows
      BY <2>3 DEF FoundRows, BareRows
    <3>2. MergeRow(new, new) = new
      BY <3>1, MergeAgain
    <3> QED
      BY <2>1, <2>2, <2>3, <2>4, <3>2
  <2>5. CASE m[k] # 0
    <3>1. m[k] \in DOMAIN existing
      BY <1>7, <2>5, MatchingFacts
    <3>2. PICK old \in BareRows : old = existing[m[k]]
      BY <3>1
    <3> QED
      BY <2>1, <2>2, <2>3, <2>5, <3>2, MergeAgain
  <2> QED
    BY <2>4, <2>5
<1>15. \A j \in 1..(n + q) : twice[j] = once[j]
  <2> SUFFICES ASSUME NEW j \in 1..(n + q) PROVE twice[j] = once[j]
    OBVIOUS
  <2>1. CASE j <= n
    BY <1>14, <2>1
  <2>2. CASE ~(j <= n)
    <3>1. j - n \in 1..q /\ n + (j - n) = j
      BY <2>2
    <3> QED
      BY <1>13, <3>1
  <2> QED
    BY <2>1, <2>2
<1>16. twice = once
  BY <1>3, <1>8, <1>12, <1>15
<1> QED
  BY <1>2, <1>5, <1>16

\* Syncing again with the inventory synced last changes no row, provided that the portgroups
\* of a place have VLANs of their own (_findBestMatchingRow, _mergeRow).
THEOREM SyncIdempotent == Spec => []SyncIsIdempotent
<1>1. ASSUME PageInv, inventory # None, Separate(inventory)
      PROVE  LET once == MergeRows(Bare(rows), RowsFromInventory(inventory))
             IN  MergeRows(once, RowsFromInventory(inventory)) = once
  <2>1. inventory \in Seq(InventoryEntries) /\ Bare(rows) \in Seq(BareRows)
    BY <1>1, BareFacts, NetworksAssumption DEF PageInv, TypeOK
  <2>2. RowsFromInventory(inventory) \in Seq(FoundRows) /\ ToldApart(RowsFromInventory(inventory))
    BY <1>1, <2>1, FoundTyped, SeparateDistinct
  <2> QED
    BY <2>1, <2>2, MergeTwice
<1>2. PageInv => SyncIsIdempotent
  BY <1>1 DEF SyncIsIdempotent
<1> QED
  BY <1>2, InitPage, NextPage, PTL DEF Spec
==============================================================================
