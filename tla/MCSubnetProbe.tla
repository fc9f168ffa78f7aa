--------------------------- MODULE MCSubnetProbe ---------------------------
(***************************************************************************)
(* A small instance of SubnetProbe for TLC.                                *)
(***************************************************************************)
EXTENDS SubnetProbe

\* Bound: on serial ports, where no thread waits for another, two VMs take their time and the
\* thread of the third comes to its end before any passes.
ThirdIsQuick == server = "serial" /\ now > 0 => pc[3] = "ended"
=============================================================================
