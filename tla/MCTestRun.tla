------------------------------- MODULE MCTestRun -------------------------------
(***************************************************************************)
(* Small instances of TestRun for TLC.  Subnets, clusters and VRFs come in *)
(* every order.                                                            *)
(***************************************************************************)
EXTENDS TestRun

Three == <<NetRow(3, 1, 1), NetRow(1, 2, 2), NetRow(2, 1, 1)>>
OneVrf == <<NetRow(2, 1, 1), NetRow(1, 2, 1), NetRow(1, 1, 1)>>
Alternating == <<NetRow(1, 1, 1), NetRow(2, 1, 2), NetRow(3, 1, 1)>>
TwoClusters == <<NetRow(2, 1, 1), NetRow(1, 2, 1), NetRow(1, 1, 2)>>

\* Against the order of subnets, to an address that is no subnet, not filled in, UDP.
Rule(src, dst, protocol) == [src |-> src, dst |-> dst, protocol |-> protocol]
AllKinds == {"intra-subnet", "intra-vrf", "cross-vrf-allowlist", "cross-vrf-block"}

Run(rows, mode) ==
  [rows |-> rows, rules |-> <<>>, suite |-> <<>>, links |-> <<>>, mode |-> mode, retry |-> "failed-only",
   maxRetries |-> 0, phased |-> FALSE, vms |-> 1, maxVms |-> 20, enabled |-> AllKinds]
InPhases(rows, mode, vms, maxVms) ==
  [Run(rows, mode) EXCEPT !.phased = TRUE, !.vms = vms, !.maxVms = maxVms,
     !.links = <<[vrfs |-> {1, 2}, expected |-> "PASS"]>>]

SmallConfigs ==
  {[Run(Three, "in-guest") EXCEPT !.rules = <<Rule(2, 1, "tcp")>>, !.retry = "all", !.maxRetries = 1],
   [Run(TwoClusters, "in-guest") EXCEPT !.rules = <<Rule(9, 1, "tcp")>>, !.maxRetries = 1],
   [Run(TwoClusters, "controller-gateway") EXCEPT !.rules = <<Rule(2, 1, "tcp"), Rule(2, 0, "tcp")>>,
      !.retry = "all", !.maxRetries = 2],
   [Run(Three, "in-guest") EXCEPT !.suite = [k \in {1, 3, 7} |-> "FAIL"]],
   [Run(Three, "dry-run") EXCEPT !.rules = <<Rule(2, 1, "udp")>>],
   [Run(Three, "dry-run") EXCEPT !.suite = [k \in {7} |-> "PASS"]],
   Run(Three, "dry-run"),
   InPhases(Three, "in-guest", 3, 6),
   InPhases(Three, "in-guest", 2, 2),
   InPhases(OneVrf, "in-guest", 1, 2),
   [InPhases(Three, "dry-run", 1, 2) EXCEPT !.links = <<>>],
   InPhases(Alternating, "controller-gateway", 1, 20),
   [InPhases(TwoClusters, "controller-gateway", 1, 20) EXCEPT !.links = <<[vrfs |-> {1, 2}, expected |-> "FAIL"]>>]}
================================================================================
