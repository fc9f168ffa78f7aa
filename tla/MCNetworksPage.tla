-------------------------- MODULE MCNetworksPage ---------------------------
(***************************************************************************)
(* A small instance of NetworksPage for TLC: one datacenter and cluster,   *)
(* two portgroups, two VLANs.                                              *)
(***************************************************************************)
EXTENDS NetworksPage

CONSTANTS p1, a, b, v1, v2, d1, s1, ticket1, token1

\* Every table of at most two rows at the place, with a portgroup or none, and with the
\* VLAN of the inventories, another or none; a file with one row.
TableRows == {Row(p1, a, v1, d1, 0), Row(p1, a, v2, d1, 0), Row(p1, b, v1, d1, 0),
              Row(p1, b, Blank, d1, 0), Row(p1, Blank, v2, d1, 0), Row(p1, Blank, Blank, d1, 0)}
SmallTables == UNION {[1..n -> TableRows] : n \in 0..2}
OneFile == {<<Row(p1, b, v1, Blank, 0)>>}

\* No portgroup, one without a VLAN, or two, with VLANs of their own or the same.
Pg(name, vlan) == [place |-> p1, pg |-> name, vlan |-> vlan]
SmallInventories ==
  {<<Pg(Blank, Untagged)>>, <<Pg(b, Untagged)>>, <<Pg(a, v2), Pg(b, v1)>>, <<Pg(a, v1), Pg(b, v1)>>}

\* An identity matters while a sync waits for one; at other times, and once there is one,
\* the search for it need not be interleaved with the rest.
AuthWhenItMatters == authVars' = authVars \/ (~HasAuth /\ sync.state = "waiting")
=============================================================================
