----------------------------- MODULE SyncBarrier -----------------------------
(***************************************************************************)
(* What the two-phase handshake of the probe servers is for                *)
(* (vsock_probe.py, serial_probe.py): where the VMs have to wait for each  *)
(* other, none is told what to probe while another may still be            *)
(* configuring its network.                                                *)
(***************************************************************************)
EXTENDS Integers

CONSTANT Vms

VARIABLES
  waits,   \* whether the VMs have to wait for each other
  phase

vars == <<waits, phase>>

Phases == {"configuring", "ready", "probing", "done", "failed"}

TypeOK == waits \in BOOLEAN /\ phase \in [Vms -> Phases]

Init == waits \in BOOLEAN /\ phase = [v \in Vms |-> "configuring"]

Moves(v, from, to) ==
  /\ phase[v] \in from
  /\ phase' = [phase EXCEPT ![v] = to]
  /\ UNCHANGED waits

\* A VM has configured its network.
BecomeReady(v) == Moves(v, {"configuring"}, "ready")

\* A VM gets its targets; if it need not wait, together with its configuration.
Probe(v) ==
  /\ waits => phase[v] = "ready" /\ \A w \in Vms : phase[w] # "configuring"
  /\ Moves(v, {"configuring", "ready"}, "probing")

Finish(v) == Moves(v, {"probing"}, "done")

\* A VM, or the connection to it, is given up.
Fail(v) == Moves(v, Phases \ {"failed"}, "failed")

Next == \E v \in Vms : BecomeReady(v) \/ Probe(v) \/ Finish(v) \/ Fail(v)
Spec == Init /\ [][Next]_vars

\* No VM probes while another that might still answer is configuring its network.
NoneEarly ==
  waits /\ (\E v \in Vms : phase[v] \in {"probing", "done"}) => \A w \in Vms : phase[w] # "configuring"
==============================================================================
