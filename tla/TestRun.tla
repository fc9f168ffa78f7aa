-------------------------------- MODULE TestRun --------------------------------
(***************************************************************************)
(* What a run tests and what it reports (runner.py): in attempts, with all *)
(* cases or those that failed tried again, or in phases up to the first    *)
(* that fails; results are merged, completed, and shown in a ResultPanel.  *)
(* What the checks find is chosen freely.  VMs, their clean-up, errors and *)
(* cancelling are RunWorker's.                                             *)
(***************************************************************************)
EXTENDS ResultPanel

CONSTANT Configs   \* the runs that may be started

Modes == {"dry-run", "controller-gateway", "in-guest"}
ConfigOK(c) ==
  /\ c.rows \in Seq(NetRows)
  /\ c.rules \in Seq([src : Nat, dst : Nat, protocol : {"tcp", "udp", "icmp", "other"}])
  /\ DOMAIN c.suite \in SUBSET Nat /\ \A k \in DOMAIN c.suite : c.suite[k] \in {"PASS", "FAIL"}
  /\ c.links \in Seq([vrfs : SUBSET Nat, expected : {"PASS", "FAIL"}])
  /\ c.mode \in Modes /\ c.retry \in {"all", "failed-only"} /\ c.maxRetries \in Nat
  /\ c.phased \in BOOLEAN /\ c.vms \in Nat \ {0} /\ c.maxVms \in Nat

\* With a suite, a run is never phased.
ASSUME ConfigsAssumption ==
  \A c \in Configs : ConfigOK(c) /\ (c.phased => DOMAIN c.suite = {})

VARIABLES
  config,
  pc,        \* "attempts", "phases", "done", "refused"
  attempt,
  current,   \* current_cases
  phases,    \* those still to come
  results,   \* all_results
  last       \* history: of each case that was run, the status it had last

vars == <<config, pc, attempt, current, phases, results, last>>

\* The cases of a run that is not phased.
CasesOf(c) == Selected(GenerateTestCases(c.rows) \o BuildCustomCases(c.rules), c.suite)

PhasesOf(c) == GeneratePhasedCases(c.rows, PassSet(c.links), c.vms, c.maxVms, c.enabled)

\* A suite that selects nothing is an error.
Init ==
  /\ config \in Configs
  /\ pc = IF config.phased THEN "phases"
          ELSE IF DOMAIN config.suite # {} /\ CasesOf(config) = <<>> THEN "refused" ELSE "attempts"
  /\ attempt = 0
  /\ current = IF config.phased THEN <<>> ELSE CasesOf(config)
  /\ phases = IF config.phased THEN PhasesOf(config) ELSE <<>>
  /\ results = <<>>
  /\ last = <<>>

\* Subnets with VMs: those of rows.  Which of them a run needs makes no difference here.
Subnets(c) == {c.rows[i].subnet : i \in DOMAIN c.rows}

Statuses(cases, new) ==
  [c \in (DOMAIN last) \cup Elements(cases) |->
     IF c \in Elements(cases) THEN new[CHOOSE k \in DOMAIN cases : cases[k] = c].status ELSE last[c]]

\* What the checks of some cases may result in.
NewResults(cases) ==
  {RunChecks(cases, config.mode, Subnets(config), found) : found \in Findings(cases, config.mode)}

Take(cases, new) ==
  /\ results' = MergeRetryResults(results, new)
  /\ last' = Statuses(cases, new)

LastAttempt(n) == n >= config.maxRetries

\* One turn of the loop over attempts: the last, or the cases for another are selected.
Attempt ==
  /\ pc = "attempts" /\ current # <<>>
  /\ \E new \in NewResults(current) : Take(current, new)
  /\ IF Failed(results') = {} \/ LastAttempt(attempt)
     THEN pc' = "done" /\ UNCHANGED <<attempt, current>>
     ELSE /\ attempt' = attempt + 1
          /\ current' = SelectRetryCases(CasesOf(config), results', config.retry)
          /\ UNCHANGED pc
  /\ UNCHANGED <<config, phases>>

\* Nothing is left to be tried.
Exhausted ==
  /\ pc = "attempts" /\ current = <<>>
  /\ pc' = "done"
  /\ UNCHANGED <<config, attempt, current, phases, results, last>>

\* One phase; the first with a failure is the last.
Phase ==
  /\ pc = "phases" /\ phases # <<>>
  /\ \E new \in NewResults(Head(phases)) :
       /\ Take(Head(phases), new)
       /\ pc' = IF Failed(new) # {} THEN "done" ELSE "phases"
  /\ phases' = Tail(phases)
  /\ UNCHANGED <<config, attempt, current>>

PhasesEnd ==
  /\ pc = "phases" /\ phases = <<>>
  /\ pc' = "done"
  /\ UNCHANGED <<config, attempt, current, phases, results, last>>

Next == Attempt \/ Exhausted \/ Phase \/ PhasesEnd

Spec == Init /\ [][Next]_vars

-----------------------------------------------------------------------------
(***************************************************************************)
(* The report                                                              *)
(***************************************************************************)

\* By what a result without clusters finds those of its case.
CaseKey(x) == <<x.src[1], x.dst[1], x.srcVm, x.dstVm, x.phase, x.probe, x.expected>>

Completed(endpoint, other) == IF endpoint[2] = 0 THEN <<endpoint[1], other[2]>> ELSE endpoint

\* Clusters that are missing are those of the last case with the key.
WithClusters(cases, r) ==
  LET same == {k \in DOMAIN cases : CaseKey(cases[k]) = CaseKey(r)}
      case == cases[CHOOSE k \in same : \A j \in same : j <= k]
  IN IF same = {} THEN r ELSE [r EXCEPT !.src = Completed(@, case.src), !.dst = Completed(@, case.dst)]

\* The phases of steps that are not tested: a ping is sent for them.
UdpSteps(rules) == {CustomPhase(i - 1, 2) : i \in {i \in DOMAIN rules : rules[i].protocol = "udp"}}

\* Faulty: they count by the ping.
UdpAsPing(rules, r) == r

\* They fail.
Published(rules, r) ==
  IF r.phase \in UdpSteps(rules)
  THEN [r EXCEPT !.actual = "UNKNOWN", !.status = "fail", !.reason = "udp-not-implemented-yet"]
  ELSE r

Report ==
  [provisioned |-> config.rows, skipped |-> <<>>,
   outcomes |-> [i \in DOMAIN results |-> Published(config.rules, WithClusters(CasesOf(config), results[i]))]]

FinalStatus == IF Failed(Report.outcomes) = {} THEN "PASS" ELSE "FAIL"

-----------------------------------------------------------------------------
(***************************************************************************)
(* Properties                                                              *)
(***************************************************************************)

CaseSet ==
  [src : Nat \X Nat, dst : Nat \X Nat, srcVm : Nat, dstVm : Nat, phase : Phases, probe : {"icmp", "tcp"},
   expected : {"OBSERVE", "PASS", "FAIL"},
   reason : {"same-vrf", "cross-vrf", "custom-step1", "custom-step2", "intra-subnet-direct",
             "cross-vrf-allowlist", "cross-vrf-block"}]

Ways == {"dry-run-expected-as-actual", "controller-cached", "controller-tcp-to-dst-gw",
         "controller-icmp-to-dst-gw", "src-vm-not-found", "probe-unavailable", "tcp-from-src-vm",
         "icmp-from-src-vm"}

ResultSet ==
  [src : Nat \X Nat, dst : Nat \X Nat, srcVm : Nat, dstVm : Nat, phase : Phases, probe : {"icmp", "tcp"},
   expected : {"OBSERVE", "PASS", "FAIL"}, actual : {"OBSERVE", "PASS", "FAIL", "UNKNOWN"},
   status : {"pass", "fail"}, reason : Ways]

TypeOK ==
  /\ config \in Configs
  /\ pc \in {"attempts", "phases", "done", "refused"}
  /\ attempt \in 0..config.maxRetries
  /\ current \in Seq(CaseSet)
  /\ phases \in Seq(Seq(CaseSet))
  /\ results \in Seq(ResultSet)
  /\ DOMAIN last \subseteq CaseSet /\ \A c \in DOMAIN last : last[c] \in {"pass", "fail"}

\* A result is one of a case, told by its phase, its VMs and, unless the controller made it,
\* its clusters.
ResultOf(r, c) ==
  /\ <<r.src[1], r.dst[1], r.srcVm, r.dstVm, r.phase, r.expected>>
       = <<c.src[1], c.dst[1], c.srcVm, c.dstVm, c.phase, c.expected>>
  /\ config.mode # "controller-gateway" => r.src = c.src /\ r.dst = c.dst

\* However often results are merged, every case that was run has one, as it was the last time
\* the case was run.
LastIsKept == \A c \in DOMAIN last : \E i \in DOMAIN results : ResultOf(results[i], c) /\ results[i].status = last[c]

\* The cases a run is to test: for a run in phases, those of its phases.
Planned == IF config.phased THEN UNION {Elements(PhasesOf(config)[n]) : n \in DOMAIN PhasesOf(config)}
           ELSE Elements(CasesOf(config))

\* A run is reported as passed only if each of its cases was run, passed the last time, and is
\* none that is not tested at all.
PassIsDeserved ==
  pc = "done" /\ FinalStatus = "PASS" =>
    \A c \in Planned : /\ c \in DOMAIN last /\ last[c] = "pass"
                       /\ c.phase \notin UdpSteps(config.rules)

\* The VMs that a phase has for each of its rows or subnets.
VmsOf(phase) == IF phase[1].phase.kind = "intra-subnet" THEN config.vms ELSE 1
PhaseSubnets(phase) == UNION {{phase[k].src[1], phase[k].dst[1]} : k \in DOMAIN phase}

\* With one row for each subnet, the phases of a run need no more VMs at a time than allowed,
\* unless one subnet does; and no two of them test the same.
PhasesFit ==
  \A n \in DOMAIN phases :
    /\ Cardinality(PhaseSubnets(phases[n])) * VmsOf(phases[n]) <= Larger(VmsOf(phases[n]), config.maxVms)
    /\ \A m \in DOMAIN phases : m # n => Elements(phases[m]) \cap Elements(phases[n]) = {}

\* "for any combinations(i,j) pair the src axis index is always < dst axis index"
\* (result-panel.component.ts, 143-145): what a run reports of a pair of rows is seen in one
\* cell of one matrix, unless phases were checked from the controller (SeenOnceInPhases).
CasesAreSeenOnce ==
  pc = "done" /\ (config.phased => config.mode # "controller-gateway")
    => ResultOfARun(Report) /\ EachCaseOnce(ProcessResult(Report))

-----------------------------------------------------------------------------
\* "Retry mode: rerun all test cases or rerun failed test cases only." (agent.md, 45): what
\* failed is run again in a further attempt.
FailedAreRetried ==
  pc = "attempts" /\ attempt > 0 => \A c \in DOMAIN last : last[c] = "fail" => c \in Elements(current)

\* "Split *cases* into TestPhase objects, each fitting within max_vms_per_phase." (policy.py,
\* 284): a run in phases that passed has run every case of its kinds.
NoCaseIsDropped ==
  pc = "done" /\ config.phased /\ FinalStatus = "PASS" =>
    \A c \in Elements(PairCases(config.rows, PassSet(config.links))) :
      c.phase.kind \in config.enabled => c \in DOMAIN last

\* "so the number of live VMs never exceeds ``max_vms_per_phase``" (policy.py, 159-160): nor
\* do the VMs of all rows that a phase has VMs for, as far as one row does not.
PhaseRows(phase) ==
  {i \in DOMAIN config.rows : \E k \in DOMAIN phase : Endpoint(config.rows[i]) \in {phase[k].src, phase[k].dst}}
VmsFit ==
  \A n \in DOMAIN phases :
    Cardinality(PhaseRows(phases[n])) * VmsOf(phases[n]) <= Larger(VmsOf(phases[n]), config.maxVms)

\* CasesAreSeenOnce without its exception.
SeenOnceInPhases == pc = "done" => EachCaseOnce(ProcessResult(Report))

\* "src_cluster/dst_cluster are now carried on TestResult directly." (runner.py, 705): the
\* report has a result of every case with its endpoints.
ClustersAreReported ==
  pc = "done" => \A c \in DOMAIN last : \E i \in DOMAIN Report.outcomes :
    Report.outcomes[i].src = c.src /\ Report.outcomes[i].dst = c.dst /\ Report.outcomes[i].phase = c.phase
=============================================================================
