------------------------------ MODULE TestCases ------------------------------
(***************************************************************************)
(* The cases of a run (policy.py, the custom rules of routes_run.py), the  *)
(* checks that give them results (probe.py), and how results of several    *)
(* attempts or phases are merged.  Subnets, clusters and VRFs are numbers  *)
(* in the order of their names; 0 is an empty name.                        *)
(***************************************************************************)
EXTENDS Sublists

\* Rows of the input that VMs are provisioned for; the server refuses empty names.
NetRow(subnet, cluster, vrf) == [subnet |-> subnet, cluster |-> cluster, vrf |-> vrf]
NetRows == [subnet : Nat \ {0}, cluster : Nat \ {0}, vrf : Nat \ {0}]

Endpoint(row) == <<row.subnet, row.cluster>>

\* The key by which rows are sorted: subnet, then cluster, then the rest.
Before(a, b) ==
  \/ a.subnet < b.subnet
  \/ a.subnet = b.subnet /\ a.cluster < b.cluster
  \/ a.subnet = b.subnet /\ a.cluster = b.cluster /\ a.vrf < b.vrf

\* Of rows with the same key, the first stays first.
Earlier(rows) ==
  {p \in (DOMAIN rows) \X (DOMAIN rows) :
     Before(rows[p[1]], rows[p[2]]) \/ (~Before(rows[p[2]], rows[p[1]]) /\ p[1] < p[2])}

PolicySort(rows) == Sorted(rows, Earlier(rows))

\* combinations(rows, 2), of different subnets, as positions.
Combinations(rows) ==
  LET pairs == {p \in (DOMAIN rows) \X (DOMAIN rows) : p[1] < p[2] /\ rows[p[1]].subnet # rows[p[2]].subnet}
  IN Arranged(pairs, Lexicographic(pairs))

Named(phase) == [kind |-> phase, row |-> 0, step |-> 0]
CustomPhase(row, step) == [kind |-> "custom", row |-> row, step |-> step]

\* The phases whose cases are pairs of rows.
Pairwise == {"network", "intra-vrf", "cross-vrf-allowlist", "cross-vrf-block"}

Case(src, dst, phase, probe, expected, reason) ==
  [src |-> src, dst |-> dst, srcVm |-> 0, dstVm |-> 0, phase |-> phase, probe |-> probe,
   expected |-> expected, reason |-> reason]

\* Every two rows of different subnets, from the earlier one to the later one.
GenerateTestCases(rows) ==
  LET sorted == PolicySort(rows)
      pairs  == Combinations(sorted)
  IN [k \in DOMAIN pairs |->
        LET a == sorted[pairs[k][1]]
            b == sorted[pairs[k][2]]
        IN Case(Endpoint(a), Endpoint(b), Named("network"), "icmp", "OBSERVE",
                IF a.vrf = b.vrf THEN "same-vrf" ELSE "cross-vrf")]

\* A rule [src, dst, protocol] tests a ping and then the protocol, UDP by a ping too; its
\* endpoints have no cluster.  Rules that are not filled in are skipped.
BuildCustomCases(rules) ==
  LET valid == InOrder({r \in DOMAIN rules : /\ rules[r].src # 0 /\ rules[r].dst # 0
                                             /\ rules[r].protocol \in {"tcp", "udp", "icmp"}})
  IN [k \in 1..(2 * Len(valid)) |->
        LET r    == valid[(k + 1) \div 2]
            step == IF k % 2 = 1 THEN 1 ELSE 2
        IN Case(<<rules[r].src, 0>>, <<rules[r].dst, 0>>, CustomPhase(r - 1, step),
                IF step = 2 /\ rules[r].protocol = "tcp" THEN "tcp" ELSE "icmp",
                "PASS", IF step = 1 THEN "custom-step1" ELSE "custom-step2")]

\* What a test suite says of cases, told by their numbers, is expected of them, and only
\* these are run; without a suite, or with an empty one, all are.
Selected(cases, suite) ==
  LET expecting(k) == IF k \in DOMAIN suite THEN [cases[k] EXCEPT !.expected = suite[k]] ELSE cases[k]
  IN IF DOMAIN suite = {} THEN cases
     ELSE Kept([k \in DOMAIN cases |-> expecting(k)], DOMAIN suite \cap DOMAIN cases)

-----------------------------------------------------------------------------
(***************************************************************************)
(* Phases                                                                  *)
(***************************************************************************)

\* Pairs of VRFs expected to be connected: the last link [vrfs, expected] of a pair decides.
PassSet(links) ==
  LET last(i) == \A j \in DOMAIN links : links[j].vrfs = links[i].vrfs => j <= i
  IN {links[i].vrfs : i \in {i \in DOMAIN links : last(i) /\ links[i].expected = "PASS"}}

PhaseOfPair(a, b, passSet) ==
  IF a.vrf = b.vrf THEN "intra-vrf"
  ELSE IF {a.vrf, b.vrf} \in passSet THEN "cross-vrf-allowlist" ELSE "cross-vrf-block"

PairCases(rows, passSet) ==
  LET sorted == PolicySort(rows)
      pairs  == Combinations(sorted)
  IN [k \in DOMAIN pairs |->
        LET a    == sorted[pairs[k][1]]
            b    == sorted[pairs[k][2]]
            kind == PhaseOfPair(a, b, passSet)
        IN Case(Endpoint(a), Endpoint(b), Named(kind), "icmp",
                IF kind = "cross-vrf-block" THEN "FAIL" ELSE "PASS",
                IF kind = "intra-vrf" THEN "same-vrf" ELSE kind)]

\* Every two VMs of a row's subnet.
IntraCases(rows, vms) ==
  LET sorted == PolicySort(rows)
      places == {p \in (DOMAIN sorted) \X (0..vms - 1) \X (0..vms - 1) : p[2] < p[3]}
      order  == Arranged(places, Lexicographic(places))
  IN [k \in DOMAIN order |->
        LET end == Endpoint(sorted[order[k][1]])
        IN [Case(end, end, Named("intra-subnet"), "icmp", "PASS", "intra-subnet-direct")
              EXCEPT !.srcVm = order[k][2], !.dstVm = order[k][3]]]

\* The subnets of cases, in the order in which they appear.
SubnetsOf(cases) ==
  Distinct([k \in 1..(2 * Len(cases)) |->
              IF k % 2 = 1 THEN cases[(k + 1) \div 2].src[1] ELSE cases[k \div 2].dst[1]])

Larger(a, b) == IF a >= b THEN a ELSE b
MaxSubnets(vms, maxVms) == Larger(1, maxVms \div Larger(1, vms))

\* Faulty: a batch has one subnet too many.
BatchTooLarge(seen, size, b) ==
  {seen[i] : i \in {i \in DOMAIN seen : (b - 1) * size < i /\ i <= b * size + 1}}

\* The subnets of the b-th batch.
BatchSubnets(seen, size, b) ==
  {seen[i] : i \in {i \in DOMAIN seen : (b - 1) * size < i /\ i <= b * size}}

\* _batch_phase: the cases, as far as both their subnets are in one batch.
BatchPhase(cases, vms, maxVms) ==
  LET seen     == SubnetsOf(cases)
      size     == MaxSubnets(vms, maxVms)
      batches  == (Len(seen) + size - 1) \div size
      batch(b) == Kept(cases, {k \in DOMAIN cases :
                    {cases[k].src[1], cases[k].dst[1]} \subseteq BatchSubnets(seen, size, b)})
      all      == [b \in 1..batches |-> batch(b)]
  IN Kept(all, {b \in DOMAIN all : all[b] # <<>>})

GeneratePhasedCases(rows, passSet, vms, maxVms, enabled) ==
  LET pairs        == PairCases(rows, passSet)
      ofKind(kind) == Kept(pairs, {k \in DOMAIN pairs : pairs[k].phase.kind = kind})
      phases(kind, cases, n) == IF kind \in enabled THEN BatchPhase(cases, n, maxVms) ELSE <<>>
      pairPhases(kind) == phases(kind, ofKind(kind), 1)
  IN phases("intra-subnet", IntraCases(rows, vms), vms) \o pairPhases("intra-vrf")
       \o pairPhases("cross-vrf-allowlist") \o pairPhases("cross-vrf-block")

-----------------------------------------------------------------------------
(***************************************************************************)
(* Results                                                                 *)
(***************************************************************************)

StatusFromExpectation(expected, actual) ==
  IF expected = "OBSERVE" THEN IF actual = "PASS" THEN "pass" ELSE "fail"
  ELSE IF actual = expected THEN "pass" ELSE "fail"

\* The result of a case: what was found, by which way.
Outcome(case, actual, reason) ==
  [src |-> case.src, dst |-> case.dst, srcVm |-> case.srcVm, dstVm |-> case.dstVm,
   phase |-> case.phase, probe |-> case.probe, expected |-> case.expected, actual |-> actual,
   status |-> StatusFromExpectation(case.expected, actual), reason |-> reason]

DryRun(case) == [Outcome(case, case.expected, "dry-run-expected-as-actual") EXCEPT !.status = "pass"]

\* From the server to the gateway of the destination, once for each gateway and probe.  The
\* clusters and the probe of the case are not on the result.
GatewayOf(case) == <<case.dst[1], case.probe>>
FromController(cases, k, found) ==
  LET case == cases[k]
      way  == IF \E j \in 1..(k - 1) : GatewayOf(cases[j]) = GatewayOf(case) THEN "controller-cached"
              ELSE IF case.probe = "tcp" THEN "controller-tcp-to-dst-gw" ELSE "controller-icmp-to-dst-gw"
  IN [Outcome(case, found[GatewayOf(case)], way)
        EXCEPT !.src = <<case.src[1], 0>>, !.dst = <<case.dst[1], 0>>, !.probe = "icmp"]

\* What a VM of the source reported of a target; of which cluster is not asked for.  A VM
\* without any report is told from one that lacks a target.  Where there is no VM, the result
\* does not name the probe of the case.
TargetOf(case) == <<case.src[1], case.srcVm, case.dst[1], case.dstVm>>
FromGuest(case, subnets, found) ==
  LET reports == {t \in DOMAIN found : t[1] = case.src[1] /\ t[2] = case.srcVm /\ found[t] # "NONE"}
  IN IF case.src[1] \notin subnets THEN [Outcome(case, "UNKNOWN", "src-vm-not-found") EXCEPT !.probe = "icmp"]
     ELSE IF reports = {} THEN Outcome(case, "UNKNOWN", "probe-unavailable")
     ELSE Outcome(case, IF found[TargetOf(case)] = "NONE" THEN "UNKNOWN" ELSE found[TargetOf(case)],
                  IF case.probe = "tcp" THEN "tcp-from-src-vm" ELSE "icmp-from-src-vm")

\* What the checks of cases may find.
Findings(cases, mode) ==
  CASE mode = "dry-run" -> {<<>>}
    [] mode = "controller-gateway" -> [{GatewayOf(cases[k]) : k \in DOMAIN cases} -> {"PASS", "FAIL"}]
    [] mode = "in-guest" -> [{TargetOf(cases[k]) : k \in DOMAIN cases} -> {"PASS", "FAIL", "NONE"}]

RunChecks(cases, mode, subnets, found) ==
  [k \in DOMAIN cases |->
     CASE mode = "dry-run" -> DryRun(cases[k])
       [] mode = "controller-gateway" -> FromController(cases, k, found)
       [] mode = "in-guest" -> FromGuest(cases[k], subnets, found)]

\* Faulty: the VMs of a subnet are not told apart.
KeyWithoutVms(r) == <<r.src, r.dst, r.phase, r.probe, r.expected, r.reason>>

\* What tells results apart.
ResultKey(r) == <<r.src, r.dst, r.srcVm, r.dstVm, r.phase, r.probe, r.expected, r.reason>>

\* The newest result with each key, where the first one was.
MergeRetryResults(prior, new) ==
  LET all    == prior \o new
      same(i, j) == ResultKey(all[i]) = ResultKey(all[j])
      latest(i) == CHOOSE j \in DOMAIN all : same(i, j) /\ \A n \in DOMAIN all : same(i, n) => n <= j
      firsts == {i \in DOMAIN all : \A j \in 1..(i - 1) : ~same(i, j)}
  IN Kept([i \in DOMAIN all |-> all[latest(i)]], firsts)

Failed(results) == {i \in DOMAIN results : results[i].status # "pass"}

\* The cases to run again: all, or those whose key, with the reason, a failed result has.
RetryKey(x) == <<x.src[1], x.dst[1], x.srcVm, x.dstVm, x.phase, x.probe, x.expected, x.reason>>
SelectRetryCases(cases, results, mode) ==
  IF mode = "all" THEN cases
  ELSE Kept(cases, {k \in DOMAIN cases : \E i \in Failed(results) : RetryKey(cases[k]) = RetryKey(results[i])})
=============================================================================
