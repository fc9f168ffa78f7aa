--------------------------- MODULE MCRunLifecycle ---------------------------
(***************************************************************************)
(* Small instances of RunLifecycle for TLC.                                *)
(***************************************************************************)
EXTENDS RunLifecycle, TLC

\* Model values: VMs a run may create, a VM of somebody else, an ISO file to
\* upload and one the operator put there, a run, and request threads.
CONSTANTS v1, v2, biz, iso1, staged, r1, h1, h2

\* The configured vm_prefix never changes.
OnePrefix == [m \in Vms |-> IF m \in Foreign THEN "business" ELSE "nettest"]

Cfg(phased, cof, boot, probe, udp) ==
  [phased |-> phased, cleanupOnFailure |-> cof, boot |-> boot, probe |-> probe,
   udp |-> udp]

\* Real runs, of either boot method.
RealConfigs == {Cfg(p, c, boot, "in-guest", FALSE) : p \in BOOLEAN, c \in BOOLEAN, boot \in {"ovf", "memboot"}}

\* One classic run of a boot method, which keeps its VMs on failure.
OneClassicOvf == {Cfg(FALSE, FALSE, "ovf", "in-guest", FALSE)}
OneClassicMemboot == {Cfg(FALSE, FALSE, "memboot", "in-guest", FALSE)}

\* A run of every kind: in phases, cleaning up on failure, with a UDP rule, dry.
MixedConfigs ==
  {Cfg(TRUE, FALSE, "ovf", "in-guest", FALSE), Cfg(FALSE, TRUE, "ovf", "in-guest", FALSE),
   Cfg(FALSE, FALSE, "memboot", "in-guest", TRUE), Cfg(FALSE, FALSE, "ovf", "dry-run", FALSE)}

\* Bound: a memory-boot run, whose clean-ups have an ISO file to delete besides, creates
\* one VM.
OneVmBesideIso == \A r \in Runs : cfg[r].boot = "memboot" => Cardinality(created'[r]) <= 1

\* Bound: a second request is handled at the same time only where the run is a classic one that
\* deploys an OVF and is not removed from the history, and with one prefix.
SecondForOvf ==
  request'[h2].pc # "idle" =>
    /\ \A r \in Runs : cfg[r] \in OneClassicOvf /\ prefix[r] = "nettest" /\ ~Deleted(r)'
    /\ \A h \in Handlers : request'[h].pc # "idle" => request'[h].prefix = "nettest"
    /\ request[h2].pc = "idle" => request[h1].pc # "idle"

\* VMs of one prefix are interchangeable.
VmSymmetry == Permutations(Vms \ Foreign)
=============================================================================
