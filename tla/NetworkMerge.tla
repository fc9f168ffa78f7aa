---------------------------- MODULE NetworkMerge ----------------------------
(***************************************************************************)
(* How the page "Input Networks" merges its rows with the inventory of the *)
(* vCenter (input-networks.component.ts, lines 99-213).  A row has a place *)
(* (datacenter and cluster), a portgroup, a VLAN, and data, which stands   *)
(* for subnet, gateway and VRF.  Fields compare without regard to case.    *)
(***************************************************************************)
EXTENDS Sublists

CONSTANTS
  Places, Portgroups, Vlans, Data,
  Untagged,                          \* the VLAN "0" of a portgroup without one
  Blank                              \* an empty field

ASSUME NetworkMergeAssumption == Blank \notin Places \cup Portgroups \cup Vlans \cup Data

Row(place, pg, vlan, data, id) ==
  [place |-> place, pg |-> pg, vlan |-> vlan, data |-> data, id |-> id]

\* An inventory lists, in the order of the loops, each portgroup of each place, and a place
\* that has none with a Blank one.
InventoryEntries ==
  [place : Places, pg : Portgroups \cup {Blank}, vlan : Vlans \cup {Untagged}]

RowsFromInventory(inv) ==
  [i \in DOMAIN inv |->
     Row(inv[i].place, inv[i].pg, IF inv[i].vlan = Untagged THEN Blank ELSE inv[i].vlan, Blank, 0)]

\* The keys of _findBestMatchingRow, in the order they are tried.
MatchKeys == <<{"place", "pg", "vlan"}, {"place", "vlan"}, {"place", "pg"}, {"place"}>>

SameKey(a, b, fields) == \A f \in fields : a[f] = b[f]

\* Faulty: a row may be matched more than once.
CandidatesUsedOrNot(existing, used, invRow, key) ==
  {i \in DOMAIN existing : SameKey(existing[i], invRow, key)}

Candidates(existing, used, invRow, key) ==
  {i \in DOMAIN existing \ used : SameKey(existing[i], invRow, key)}

Least(S) == CHOOSE x \in S : \A y \in S : x <= y

\* The first free row under the first key that finds one, or 0.
BestMatch(existing, used, invRow) ==
  LET found == {k \in DOMAIN MatchKeys : Candidates(existing, used, invRow, MatchKeys[k]) # {}}
  IN IF found = {} THEN 0
     ELSE Least(Candidates(existing, used, invRow, MatchKeys[Least(found)]))

Or(a, b) == IF a # Blank THEN a ELSE b

\* Faulty: the row of the inventory wins.
MergeRowInventoryFirst(old, invRow) ==
  Row(invRow.place, Or(invRow.pg, old.pg), Or(invRow.vlan, old.vlan), invRow.data, old.id)

\* What is there wins over the inventory, but for the VLAN of the same portgroup.
MergeRow(old, invRow) ==
  LET pg == Or(old.pg, invRow.pg)
  IN Row(old.place, pg,
         IF pg # Blank /\ pg = invRow.pg THEN invRow.vlan ELSE Or(old.vlan, invRow.vlan),
         Or(old.data, invRow.data), old.id)

\* For each row of the inventory the number of the row it is merged with, or 0: in turn they
\* take the best of the rows that those before them have left.  There is one such matching.
Used(matching, k) == {matching[j] : j \in 1..(k - 1)}

Matchings(existing, invRows) ==
  {matching \in [DOMAIN invRows -> 0..Len(existing)] :
     \A k \in DOMAIN invRows : matching[k] = BestMatch(existing, Used(matching, k), invRows[k])}

\* The rows no row of the inventory has matched, in their order.
Unmatched(existing, matching) ==
  Kept(existing, DOMAIN existing \ {matching[k] : k \in DOMAIN matching})

\* The rows of the inventory, each merged with its match, and then the others.
MergedBy(matching, existing, invRows) ==
  [k \in DOMAIN invRows |->
     IF matching[k] = 0 THEN invRows[k] ELSE MergeRow(existing[matching[k]], invRows[k])]
  \o Unmatched(existing, matching)

MergeRows(existing, invRows) ==
  CHOOSE merged \in {MergedBy(matching, existing, invRows) : matching \in Matchings(existing, invRows)} :
    TRUE
=============================================================================
