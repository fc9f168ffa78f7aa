----------------------------- MODULE ProbeProofs -----------------------------
(***************************************************************************)
(* What run_subnet_probe of the probe servers guarantees, for any number   *)
(* of VMs and any timeouts: its types, that the handshake of the vsock     *)
(* server is a barrier, and that the answer is complete and in time.       *)
(***************************************************************************)
EXTENDS SubnetProbe, FiniteSetTheorems, TLAPS

-----------------------------------------------------------------------------
(* Types                                                                   *)

LEMMA InitType == Init => TypeOK
<1> SUFFICES ASSUME Init PROVE TypeOK
  OBVIOUS
<1>1. 1 \in Vms /\ ConnectTimeout \in Nat /\ Budget \in Nat /\ joining \in 1..N + 1
  BY ProbeAssumption DEF Init, Vms, Budget
<1>2. pc \in [Vms -> Steps]
  BY DEF Init, Steps, Reading
<1>3. until \in [Vms -> Nat] /\ lineBy \in [Vms -> Nat] /\ peer \in [Vms -> Vms]
  BY <1>1 DEF Init
<1> QED
  BY <1>1, <1>2, <1>3, ProbeAssumption DEF Init, TypeOK

LEMMA MarkErrorType ==
  ASSUME TypeOK, NEW v \in Vms, MarkError(v)
  PROVE  failed' \subseteq Vms /\ ready' \subseteq Vms /\ abort' \in BOOLEAN
<1>1. abort' \in BOOLEAN
  BY ZenonT(20) DEF MarkError
<1> QED
  BY <1>1 DEF MarkError, TypeOK

LEMMA ThreadType ==
  ASSUME TypeOK, NEW v \in Vms, VmConnects(v) \/ Thread(v)
  PROVE  TypeOK'
<1> USE ProbeAssumption DEF TypeOK, Steps, Reading, Goes, Waits, callVars, callerVars
<1>1. CASE VmConnects(v)       BY <1>1 DEF VmConnects
<1>2. CASE Starts(v)
  <2>1. CASE abort
    BY <1>2, <2>1, MarkErrorType DEF Starts
  <2>2. CASE ~abort
    BY <1>2, <2>2 DEF Starts
  <2> QED BY <2>1, <2>2
<1>3. CASE Connects(v)
  <2>1. CASE server = "serial"
    BY <1>3, <2>1 DEF Connects
  <2>2. CASE server # "serial"
    BY <1>3, <2>2 DEF Connects, SendConfig
  <2> QED BY <2>1, <2>2
<1>4. CASE ConnectTimesOut(v)  BY <1>4 DEF ConnectTimesOut, MarkError
<1>5. CASE HearsReady(v)       BY <1>5 DEF HearsReady
<1>6. CASE PeerIsReady(v)
  <2>1. CASE LastPeer(v)
    BY <1>6, <2>1 DEF PeerIsReady
  <2>2. CASE ~LastPeer(v)
    <3>1. peer[v] + 1 \in Vms
      <4>1. peer[v] \in Vms /\ peer[v] # N
        BY <2>2 DEF LastPeer
      <4> HIDE DEF TypeOK
      <4> QED BY <4>1 DEF Vms
    <3>2. peer' = [peer EXCEPT ![v] = peer[v] + 1] /\ Goes(v, "peers", now + ConnectTimeout)
      BY <1>6, <2>2 DEF PeerIsReady
    <3>3. peer' \in [Vms -> Vms]
      BY <3>1, <3>2
    <3> QED BY <1>6, <3>2, <3>3 DEF PeerIsReady
  <2> QED BY <2>1, <2>2
<1>7. CASE PeerTimesOut(v)     BY <1>7 DEF PeerTimesOut
<1>8. CASE HearsHello(v)       BY <1>8 DEF HearsHello
<1>9. CASE IoFails(v)          BY <1>9 DEF IoFails, MarkError
<1>10. CASE HearsDone(v)       BY <1>10 DEF HearsDone
<1>11. CASE Closes(v)          BY <1>11 DEF Closes
<1>12. CASE GreetingOver(v)    BY <1>12 DEF GreetingOver, SendConfig
<1>13. CASE HearsPiece(v)      BY <1>13 DEF HearsPiece
<1> QED
  BY <1>1, <1>2, <1>3, <1>4, <1>5, <1>6, <1>7, <1>8, <1>9, <1>10, <1>11, <1>12, <1>13 DEF Thread

LEMMA NextType == TypeOK /\ [Next]_vars => TypeOK'
<1> SUFFICES ASSUME TypeOK, [Next]_vars PROVE TypeOK'
  OBVIOUS
<1>1. ASSUME NEW v \in Vms, VmConnects(v) \/ Thread(v) PROVE TypeOK'
  BY <1>1, ThreadType
<1>2. CASE Joins
  BY <1>2, ProbeAssumption DEF Joins, Joined, TypeOK, callVars, Budget
<1>3. CASE JoinTimesOut
  <2>1. joining \in Vms
    BY <1>3 DEF JoinTimesOut, TypeOK, Vms
  <2>2. failed' \subseteq Vms /\ ready' \subseteq Vms /\ abort' \in BOOLEAN
    <3>1. CASE server = "serial"
      BY <1>3, <2>1, <3>1, MarkErrorType DEF JoinTimesOut, GiveUpOn
    <3>2. CASE server # "serial"
      BY <1>3, <3>2 DEF JoinTimesOut, GiveUpOn, TypeOK
    <3> QED BY <3>1, <3>2
  <2>3. joining' \in 1..N + 1 /\ joinUntil' \in Nat
    BY <1>3, ProbeAssumption DEF JoinTimesOut, Joined, TypeOK, Budget
  <2> QED
    BY <1>3, <2>2, <2>3 DEF JoinTimesOut, TypeOK, callVars
<1>4. CASE Answers
  BY <1>4 DEF Answers, TypeOK, callVars
<1>5. CASE Tick
  BY <1>5 DEF Tick, TypeOK, callVars, callerVars
<1>6. CASE UNCHANGED vars
  BY <1>6 DEF vars, TypeOK
<1> QED
  BY <1>1, <1>2, <1>3, <1>4, <1>5, <1>6 DEF Next

\* The state of both probe servers keeps its types.
THEOREM ProbeTypes == Spec => []TypeOK
BY InitType, NextType, PTL DEF Spec

-----------------------------------------------------------------------------
(* The barrier.  A thread that waits for a peer has seen the events of the *)
(* peers before it, and a VM whose event is set is not configuring.        *)

Settled(v) == v \in failed \cup results \/ pc[v] \in {"peers", "done"}

BarrierInv ==
  \A v \in Vms :
    /\ pc[v] \in {"start", "connect", "hello", "ready"} => peer[v] = 1
    /\ pc[v] = "peers" => \A w \in Vms : w < peer[v] => w \in ready
    /\ v \in ready => Settled(v)

LEMMA InitBarrier == Init => BarrierInv
BY DEF Init, BarrierInv, Settled

LEMMA ThreadBarrier ==
  ASSUME TypeOK, BarrierInv, NEW v \in Vms, VmConnects(v) \/ Thread(v)
  PROVE  BarrierInv'
<1>1. pc \in [Vms -> Steps] /\ peer \in [Vms -> Vms] /\ N \in Nat
  BY ProbeAssumption DEF TypeOK
<1> USE <1>1 DEF BarrierInv, Settled, Goes, Waits
<1>2. CASE VmConnects(v)       BY <1>2 DEF VmConnects
<1>3. CASE Starts(v)           BY <1>3 DEF Starts, MarkError
<1>4. CASE Connects(v)
  <2>1. CASE server = "serial"
    BY <1>4, <2>1 DEF Connects
  <2>2. CASE server # "serial"
    BY <1>4, <2>2 DEF Connects, SendConfig
  <2> QED BY <2>1, <2>2
<1>5. CASE ConnectTimesOut(v)  BY <1>5 DEF ConnectTimesOut, MarkError
<1>6. CASE HearsReady(v)
  <2>1. \A w \in Vms : ~(w < 1)
    BY DEF Vms
  <2> QED BY <1>6, <2>1 DEF HearsReady
<1>7. CASE PeerIsReady(v)
  <2>1. CASE LastPeer(v)
    BY <1>7, <2>1 DEF PeerIsReady
  <2>2. CASE ~LastPeer(v)
    <3>1. peer' = [peer EXCEPT ![v] = peer[v] + 1] /\ Goes(v, "peers", now + ConnectTimeout)
      BY <1>7, <2>2 DEF PeerIsReady
    <3>2. \A w \in Vms : w < peer[v] + 1 => w < peer[v] \/ w = peer[v]
      BY DEF Vms
    <3> QED BY <1>7, <3>1, <3>2 DEF PeerIsReady
  <2> QED BY <2>1, <2>2
<1>8. CASE PeerTimesOut(v)     BY <1>8 DEF PeerTimesOut
<1>9. CASE HearsHello(v)       BY <1>9 DEF HearsHello
<1>10. CASE IoFails(v)         BY <1>10 DEF IoFails, MarkError
<1>11. CASE HearsDone(v)       BY <1>11 DEF HearsDone
<1>12. CASE Closes(v)          BY <1>12 DEF Closes
<1>13. CASE GreetingOver(v)    BY <1>13 DEF GreetingOver, SendConfig
<1>14. CASE HearsPiece(v)      BY <1>14 DEF HearsPiece
<1> QED
  BY <1>2, <1>3, <1>4, <1>5, <1>6, <1>7, <1>8, <1>9, <1>10, <1>11, <1>12, <1>13, <1>14 DEF Thread

LEMMA NextBarrier == TypeOK /\ BarrierInv /\ [Next]_vars => BarrierInv'
<1> SUFFICES ASSUME TypeOK, BarrierInv, [Next]_vars PROVE BarrierInv'
  OBVIOUS
<1> USE DEF BarrierInv, Settled
<1>1. ASSUME NEW v \in Vms, VmConnects(v) \/ Thread(v) PROVE BarrierInv'
  BY <1>1, ThreadBarrier
<1>2. CASE Joins         BY <1>2 DEF Joins
<1>3. CASE JoinTimesOut  BY <1>3 DEF JoinTimesOut, GiveUpOn, MarkError
<1>4. CASE Answers       BY <1>4 DEF Answers
<1>5. CASE Tick          BY <1>5 DEF Tick
<1>6. CASE UNCHANGED vars
  BY <1>6 DEF vars
<1> QED
  BY <1>1, <1>2, <1>3, <1>4, <1>5, <1>6 DEF Next

\* What follows sees of a step the phases before and after it.
LEMMA PhaseMoves ==
  ASSUME NEW v \in Vms, NEW from, NEW to, UNCHANGED callVars,
         Phase(v) \in from, Phase(v)' = to, \A w \in Vms \ {v} : Phase(w)' = Phase(w)
  PROVE  Barrier!Moves(v, from, to)
<1>1. (sync /\ server = "vsock")' = (sync /\ server = "vsock")
  BY DEF callVars
<1>2. [w \in Vms |-> Phase(w)]' = [w \in Vms |-> Phase(w)']
  OBVIOUS
<1>3. [w \in Vms |-> Phase(w)'] = [[w \in Vms |-> Phase(w)] EXCEPT ![v] = to]
  OBVIOUS
<1> QED
  BY <1>1, <1>2, <1>3 DEF Barrier!Moves

LEMMA PhaseStays ==
  ASSUME UNCHANGED callVars, \A w \in Vms : Phase(w)' = Phase(w)
  PROVE  UNCHANGED Barrier!vars
<1>1. (sync /\ server = "vsock")' = (sync /\ server = "vsock")
  BY DEF callVars
<1> QED
  BY <1>1 DEF Barrier!vars

\* Nothing changes the phase of a VM but its thread's step and its entries.
LEMMA PhaseKept ==
  ASSUME NEW w \in Vms, pc[w]' = pc[w], w \in failed' <=> w \in failed, w \in results' <=> w \in results
  PROVE  Phase(w)' = Phase(w)
BY DEF Phase

LEMMA PhaseFails ==
  ASSUME NEW v \in Vms, UNCHANGED <<callVars, results>>, failed' = failed \cup {v},
         \A w \in Vms \ {v} : pc[w]' = pc[w]
  PROVE  Barrier!Next \/ UNCHANGED Barrier!vars
<1>1. \A w \in Vms \ {v} : Phase(w)' = Phase(w)
  BY PhaseKept
<1>2. Phase(v)' = "failed"
  BY DEF Phase
<1>3. CASE Phase(v) = "failed"
  BY <1>1, <1>2, <1>3, PhaseStays
<1>4. CASE Phase(v) # "failed"
  <2>1. Phase(v) \in Barrier!Phases \ {"failed"}
    BY <1>4 DEF Phase, Barrier!Phases
  <2>2. Barrier!Fail(v)
    BY <1>1, <1>2, <2>1, PhaseMoves DEF Barrier!Fail
  <2> QED BY <2>2 DEF Barrier!Next
<1> QED BY <1>3, <1>4

\* The configuration goes out, and unless sync the targets with it.
LEMMA ConfigRefines ==
  ASSUME TypeOK, NEW v \in Vms, SendConfig(v), pc[v] \in {"connect", "hello"},
         UNCHANGED <<callVars, failed, results>>
  PROVE  Barrier!Next \/ UNCHANGED Barrier!vars
<1>1. pc[v]' = (IF sync THEN "ready" ELSE "done") /\ \A w \in Vms \ {v} : pc[w]' = pc[w]
  BY DEF SendConfig, Goes, Waits, TypeOK
<1>2. \A w \in Vms \ {v} : Phase(w)' = Phase(w)
  BY <1>1, PhaseKept
<1>3. CASE sync \/ v \in failed \cup results
  <2>1. Phase(v)' = Phase(v)
    BY <1>1, <1>3 DEF Phase
  <2> QED BY <1>2, <2>1, PhaseStays
<1>4. CASE ~sync /\ v \notin failed \cup results
  <2>1. Phase(v) = "configuring" /\ Phase(v)' = "probing"
    BY <1>1, <1>4 DEF Phase
  <2>2. Barrier!Probe(v)
    BY <1>2, <1>4, <2>1, PhaseMoves DEF Barrier!Probe
  <2> QED BY <2>2 DEF Barrier!Next
<1> QED BY <1>3, <1>4

LEMMA ThreadRefines ==
  ASSUME TypeOK, BarrierInv, NEW v \in Vms, VmConnects(v) \/ Thread(v)
  PROVE  Barrier!Next \/ UNCHANGED Barrier!vars
<1>1. pc \in [Vms -> Steps] /\ peer \in [Vms -> Vms]
  BY DEF TypeOK
<1>2. ASSUME NEW step, NEW deadline, Goes(v, step, deadline)
      PROVE  pc[v]' = step /\ \A w \in Vms \ {v} : pc[w]' = pc[w]
  BY <1>1, <1>2 DEF Goes, Waits
<1>3. ASSUME UNCHANGED <<callVars, failed, results>>, \A w \in Vms \ {v} : pc[w]' = pc[w],
             Phase(v)' = Phase(v)
      PROVE  UNCHANGED Barrier!vars
  BY <1>3, PhaseKept, PhaseStays
<1>4. CASE VmConnects(v)
  BY <1>3, <1>4, PhaseKept DEF VmConnects
<1>5. CASE Starts(v)
  <2>1. CASE abort
    BY <1>2, <1>5, <2>1, PhaseFails DEF Starts, MarkError
  <2>2. CASE ~abort
    <3>1. pc[v] = "start" /\ pc[v]' = "connect" /\ UNCHANGED <<callVars, failed, results>>
      BY <1>2, <1>5, <2>2 DEF Starts
    <3>2. Phase(v)' = Phase(v)
      BY <3>1 DEF Phase
    <3> QED BY <1>2, <1>3, <1>5, <2>2, <3>1, <3>2 DEF Starts
  <2> QED BY <2>1, <2>2
<1>6. CASE Connects(v)
  <2>1. CASE server = "serial"
    <3>1. /\ pc[v] = "connect" /\ pc[v]' = "hello" /\ UNCHANGED <<callVars, failed, results>>
          /\ \A w \in Vms \ {v} : pc[w]' = pc[w]
      BY <1>1, <1>6, <2>1 DEF Connects, Waits
    <3>2. Phase(v)' = Phase(v)
      BY <3>1 DEF Phase
    <3> QED BY <1>3, <3>1, <3>2
  <2>2. CASE server # "serial"
    <3>1. SendConfig(v) /\ pc[v] = "connect" /\ UNCHANGED <<callVars, failed, results>>
      BY <1>6, <2>2 DEF Connects
    <3> QED BY <3>1, ConfigRefines
  <2> QED BY <2>1, <2>2
<1>7. CASE ConnectTimesOut(v)
  BY <1>2, <1>7, PhaseFails DEF ConnectTimesOut, MarkError
<1>8. CASE HearsReady(v)
  <2>1. /\ pc[v] = "ready" /\ pc[v]' = (IF server = "vsock" THEN "peers" ELSE "done")
        /\ UNCHANGED <<callVars, failed, results>> /\ \A w \in Vms \ {v} : pc[w]' = pc[w]
    BY <1>2, <1>8 DEF HearsReady
  <2>2. CASE v \in failed \cup results
    <3>1. Phase(v)' = Phase(v)
      BY <2>1, <2>2 DEF Phase
    <3> QED BY <1>3, <2>1, <3>1
  <2>3. CASE v \notin failed \cup results /\ server = "vsock"
    <3>1. Phase(v) = "configuring" /\ Phase(v)' = "ready"
      BY <2>1, <2>3 DEF Phase
    <3>2. Barrier!BecomeReady(v)
      BY <2>1, <3>1, PhaseKept, PhaseMoves DEF Barrier!BecomeReady
    <3> QED BY <3>2 DEF Barrier!Next
  <2>4. CASE v \notin failed \cup results /\ server # "vsock"
    <3>1. Phase(v) = "configuring" /\ Phase(v)' = "probing"
      BY <2>1, <2>4 DEF Phase
    <3>2. Barrier!Probe(v)
      BY <2>1, <2>4, <3>1, PhaseKept, PhaseMoves DEF Barrier!Probe
    <3> QED BY <3>2 DEF Barrier!Next
  <2> QED BY <2>2, <2>3, <2>4
<1>9. CASE PeerIsReady(v)
  <2>1. /\ pc[v] = "peers" /\ peer[v] \in ready
        /\ pc[v]' = (IF LastPeer(v) THEN "done" ELSE "peers")
        /\ UNCHANGED <<callVars, failed, results>> /\ \A w \in Vms \ {v} : pc[w]' = pc[w]
    BY <1>2, <1>9 DEF PeerIsReady
  <2>2. CASE v \in failed \cup results \/ ~LastPeer(v)
    <3>1. Phase(v)' = Phase(v)
      BY <2>1, <2>2 DEF Phase
    <3> QED BY <1>3, <2>1, <3>1
  <2>3. CASE v \notin failed \cup results /\ LastPeer(v)
    <3>1. \A w \in Vms : w < N \/ w = N
      BY ProbeAssumption DEF Vms
    <3>2. \A w \in Vms : w \in ready
      BY <2>1, <2>3, <3>1 DEF BarrierInv, LastPeer
    <3>3. \A w \in Vms : Phase(w) # "configuring"
      BY <3>2 DEF BarrierInv, Settled, Phase
    <3>4. Phase(v) = "ready" /\ Phase(v)' = "probing"
      BY <2>1, <2>3 DEF Phase
    <3>5. Barrier!Probe(v)
      BY <2>1, <3>3, <3>4, PhaseKept, PhaseMoves DEF Barrier!Probe
    <3> QED BY <3>5 DEF Barrier!Next
  <2> QED BY <2>2, <2>3
<1>10. CASE PeerTimesOut(v)
  BY <1>2, <1>10, PhaseFails DEF PeerTimesOut
<1>11. CASE HearsHello(v)
  BY <1>3, <1>11, PhaseKept DEF HearsHello
<1>12. CASE IoFails(v)
  BY <1>2, <1>12, PhaseFails DEF IoFails, MarkError
<1>13. CASE HearsDone(v)
  <2>1. /\ pc[v] = "done" /\ results' = results \cup {v}
        /\ UNCHANGED <<callVars, failed>> /\ \A w \in Vms \ {v} : pc[w]' = pc[w]
    BY <1>2, <1>13 DEF HearsDone
  <2>2. \A w \in Vms \ {v} : Phase(w)' = Phase(w)
    BY <2>1, PhaseKept
  <2>3. CASE v \in failed \cup results
    <3>1. Phase(v)' = Phase(v)
      BY <2>1, <2>3 DEF Phase
    <3> QED BY <2>1, <2>2, <3>1, PhaseStays
  <2>4. CASE v \notin failed \cup results
    <3>1. Phase(v) = "probing" /\ Phase(v)' = "done"
      BY <2>1, <2>4 DEF Phase
    <3>2. Barrier!Finish(v)
      BY <2>1, <2>2, <3>1, PhaseMoves DEF Barrier!Finish
    <3> QED BY <3>2 DEF Barrier!Next
  <2> QED BY <2>3, <2>4
<1>14. CASE GreetingOver(v)
  BY <1>14, ConfigRefines DEF GreetingOver
<1>15. CASE HearsPiece(v)
  BY <1>3, <1>15, PhaseKept DEF HearsPiece
<1>16. CASE Closes(v)
  <2>1. /\ pc[v] = "close" /\ pc[v]' = "ended"
        /\ UNCHANGED <<callVars, failed, results>> /\ \A w \in Vms \ {v} : pc[w]' = pc[w]
    BY <1>2, <1>16 DEF Closes
  <2>2. Phase(v)' = Phase(v)
    BY <2>1 DEF Phase
  <2> QED BY <1>3, <2>1, <2>2
<1> QED
  BY <1>4, <1>5, <1>6, <1>7, <1>8, <1>9, <1>10, <1>11, <1>12, <1>13, <1>14, <1>15, <1>16 DEF Thread

LEMMA NextRefines ==
  ASSUME TypeOK, BarrierInv, [Next]_vars
  PROVE  [Barrier!Next]_(Barrier!vars)
<1>1. ASSUME NEW v \in Vms, VmConnects(v) \/ Thread(v)
      PROVE  Barrier!Next \/ UNCHANGED Barrier!vars
  BY <1>1, ThreadRefines
<1>2. ASSUME UNCHANGED <<callVars, pc, failed, results>>
      PROVE  UNCHANGED Barrier!vars
  BY <1>2, PhaseKept, PhaseStays
<1>3. CASE Joins
  BY <1>2, <1>3 DEF Joins
<1>4. CASE JoinTimesOut
  <2>1. joining \in Vms /\ UNCHANGED <<callVars, pc, results>>
    BY <1>4 DEF JoinTimesOut, TypeOK, Vms
  <2>2. CASE server = "serial"
    BY <1>4, <2>1, <2>2, PhaseFails DEF JoinTimesOut, GiveUpOn, MarkError
  <2>3. CASE server # "serial"
    BY <1>2, <1>4, <2>1, <2>3 DEF JoinTimesOut, GiveUpOn
  <2> QED BY <2>2, <2>3
<1>5. CASE Answers
  BY <1>2, <1>5 DEF Answers
<1>6. CASE Tick
  BY <1>2, <1>6 DEF Tick
<1>7. CASE UNCHANGED vars
  BY <1>2, <1>7 DEF vars, callVars
<1> QED
  BY <1>1, <1>3, <1>4, <1>5, <1>6, <1>7 DEF Next

LEMMA InitRefines == Init => Barrier!Init
<1> SUFFICES ASSUME Init PROVE Barrier!Init
  OBVIOUS
<1>1. \A v \in Vms : Phase(v) = "configuring"
  BY DEF Init, Phase
<1>2. (sync /\ server = "vsock") \in BOOLEAN
  BY DEF Init
<1> QED
  BY <1>1, <1>2 DEF Barrier!Init

\* The handshake of the vsock server implements the barrier, for any number of VMs, in
\* whatever order they connect, answer, fail or are given up.
THEOREM ProbeImplementsBarrier == Spec => ImplementsBarrier
<1>1. Init => TypeOK /\ BarrierInv
  BY InitType, InitBarrier
<1>2. TypeOK /\ BarrierInv /\ [Next]_vars => (TypeOK /\ BarrierInv)'
  BY NextType, NextBarrier
<1>3. TypeOK /\ BarrierInv /\ [Next]_vars => [Barrier!Next]_(Barrier!vars)
  BY NextRefines
<1> QED
  BY <1>1, <1>2, <1>3, InitRefines, PTL DEF Spec, ImplementsBarrier, Barrier!Spec

\* The barrier itself keeps what its name says.
BarrierKept == Barrier!TypeOK /\ Barrier!NoneEarly

LEMMA BarrierNext == BarrierKept /\ [Barrier!Next]_(Barrier!vars) => BarrierKept'
<1> SUFFICES ASSUME BarrierKept, [Barrier!Next]_(Barrier!vars) PROVE BarrierKept'
  OBVIOUS
<1> USE DEF BarrierKept, Barrier!TypeOK, Barrier!NoneEarly, Barrier!Phases, Barrier!Moves
<1>1. ASSUME NEW v \in Vms, Barrier!BecomeReady(v) PROVE BarrierKept'
  BY <1>1 DEF Barrier!BecomeReady
<1>2. ASSUME NEW v \in Vms, Barrier!Probe(v) PROVE BarrierKept'
  BY <1>2 DEF Barrier!Probe
<1>3. ASSUME NEW v \in Vms, Barrier!Finish(v) PROVE BarrierKept'
  BY <1>3 DEF Barrier!Finish
<1>4. ASSUME NEW v \in Vms, Barrier!Fail(v) PROVE BarrierKept'
  BY <1>4 DEF Barrier!Fail
<1>5. CASE UNCHANGED Barrier!vars
  BY <1>5 DEF Barrier!vars
<1> QED
  BY <1>1, <1>2, <1>3, <1>4, <1>5 DEF Barrier!Next

\* No VM probes while another may still be configuring its network: what the two-phase
\* handshake is for, as SyncBarrier has it.
THEOREM BarrierHolds == Barrier!Spec => []Barrier!NoneEarly
<1>1. Barrier!Init => BarrierKept
  BY DEF BarrierKept, Barrier!Init, Barrier!TypeOK, Barrier!NoneEarly, Barrier!Phases
<1>2. BarrierKept => Barrier!NoneEarly
  BY DEF BarrierKept
<1> QED
  BY <1>1, <1>2, BarrierNext, PTL DEF Barrier!Spec

\* So it is with the threads of the vsock server: "all VMs finish network configuration
\* before any begin probing", which the serial server's do not keep.
THEOREM VsockConfiguresFirst == Spec => [](server = "vsock" => AllConfiguredFirst)
<1>1. Barrier!NoneEarly => (server = "vsock" => AllConfiguredFirst)
  BY DEF Barrier!NoneEarly, AllConfiguredFirst
<1> QED
  BY <1>1, ProbeImplementsBarrier, BarrierHolds, PTL DEF ImplementsBarrier

-----------------------------------------------------------------------------
(* The time of the answer.  On a vsock every wait of a thread ends before  *)
(* the limit: a wait for a peer, which may be given more, because the peer *)
(* it waits for is not ready and so still in the first phase, which ends   *)
(* in time, and every way out of the first phase sets its event.           *)

\* What a thread of the vsock server still has before it.  Its line has a deadline; the
\* last piece may come one timeout of the socket later.
Early(v) ==
  /\ pc[v] \notin {"start", "hello"}
  /\ pc[v] = "connect" => until[v] <= ConnectTimeout
  /\ pc[v] = "ready" => lineBy[v] < ConnectTimeout + IoTimeout /\ until[v] < ConnectTimeout + 2 * IoTimeout
  /\ pc[v] = "peers" => now < ConnectTimeout + 2 * IoTimeout
  /\ pc[v] = "done" => lineBy[v] + IoTimeout < ThreadLimit /\ until[v] < ThreadLimit
  /\ v \notin ready => pc[v] \in {"connect", "ready"}
  /\ pc[v] \in {"ready", "peers"} => sync

TimeInv ==
  /\ server = "vsock" => /\ \A v \in Vms : Early(v)
                         /\ answer = NoAnswer => now < ThreadLimit
  /\ server = "serial" => /\ joinUntil = Budget
                          /\ answer = NoAnswer => now <= Budget

\* The second phase adds as much as the first.
LEMMA LimitValue ==
  /\ sync => ThreadLimit = ConnectTimeout + 2 * IoTimeout + 2 * IoTimeout
  /\ ~sync => ThreadLimit = ConnectTimeout + 2 * IoTimeout
  /\ ThreadLimit \in Nat
BY ProbeAssumption DEF ThreadLimit

LEMMA InitTime == Init => TimeInv
<1> SUFFICES ASSUME Init PROVE TimeInv
  OBVIOUS
<1>1. sync \in BOOLEAN /\ 0 < ThreadLimit
  BY ProbeAssumption, LimitValue DEF Init
<1>2. 0 <= Budget
  BY ProbeAssumption DEF Budget
<1>3. ASSUME server = "vsock", NEW v \in Vms PROVE Early(v)
  <2>1. pc[v] = "connect" /\ until[v] = ConnectTimeout
    BY <1>3 DEF Init
  <2> QED  BY <2>1, ProbeAssumption DEF Early
<1> QED
  BY <1>1, <1>2, <1>3 DEF Init, TimeInv

\* What a step of a thread leaves alone.
LEMMA ThreadFrame ==
  ASSUME TypeOK, NEW v \in Vms, VmConnects(v) \/ Thread(v)
  PROVE  /\ UNCHANGED <<server, sync, now, joining, joinUntil, answer>> /\ ready \subseteq ready'
         /\ failed \subseteq failed' /\ results \subseteq results'
         /\ \A w \in Vms \ {v} : pc[w]' = pc[w] /\ until[w]' = until[w] /\ lineBy[w]' = lineBy[w]
<1> USE DEF TypeOK, Goes, Waits, callVars, callerVars
<1>1. CASE VmConnects(v)       BY <1>1 DEF VmConnects
<1>2. CASE Starts(v)           BY <1>2 DEF Starts, MarkError
<1>3. CASE Connects(v)         BY <1>3 DEF Connects, SendConfig
<1>4. CASE ConnectTimesOut(v)  BY <1>4 DEF ConnectTimesOut, MarkError
<1>5. CASE GreetingOver(v)     BY <1>5 DEF GreetingOver, SendConfig
<1>6. CASE HearsPiece(v)       BY <1>6 DEF HearsPiece
<1>7. CASE HearsReady(v)       BY <1>7 DEF HearsReady
<1>8. CASE PeerIsReady(v)      BY <1>8 DEF PeerIsReady
<1>9. CASE PeerTimesOut(v)     BY <1>9 DEF PeerTimesOut
<1>10. CASE HearsHello(v)      BY <1>10 DEF HearsHello
<1>11. CASE IoFails(v)         BY <1>11 DEF IoFails, MarkError
<1>12. CASE HearsDone(v)       BY <1>12 DEF HearsDone
<1>13. CASE Closes(v)          BY <1>13 DEF Closes
<1> QED
  BY <1>1, <1>2, <1>3, <1>4, <1>5, <1>6, <1>7, <1>8, <1>9, <1>10, <1>11, <1>12, <1>13 DEF Thread

LEMMA ThreadEarly ==
  ASSUME TypeOK, NEW v \in Vms, VmConnects(v) \/ Thread(v), server = "vsock", Early(v)
  PROVE  Early(v)'
<1>1. /\ pc \in [Vms -> Steps] /\ until \in [Vms -> Nat] /\ lineBy \in [Vms -> Nat] /\ now \in Nat
      /\ sync \in BOOLEAN /\ ConnectTimeout \in Nat /\ IoTimeout \in Nat \ {0} /\ ThreadLimit \in Nat
  BY ProbeAssumption, LimitValue DEF TypeOK
<1>2. UNCHANGED <<server, sync, now>> /\ ready \subseteq ready'
  BY ThreadFrame
<1>3. ThreadLimit' = ThreadLimit
  BY <1>2 DEF ThreadLimit
<1> USE <1>1, <1>2, <1>3 DEF Early, Goes, Waits
<1>4. CASE VmConnects(v)       BY <1>4 DEF VmConnects
<1>5. CASE Starts(v)           BY <1>5 DEF Starts
<1>6. CASE Connects(v)
  <2>1. now < ConnectTimeout /\ SendConfig(v)
    BY <1>6 DEF Connects
  <2> QED BY <2>1, LimitValue DEF SendConfig
<1>7. CASE ConnectTimesOut(v)  BY <1>7 DEF ConnectTimesOut, MarkError
<1>8. CASE GreetingOver(v)     BY <1>8 DEF GreetingOver
<1>9. CASE HearsPiece(v)
  <2>1. /\ pc[v] \in {"ready", "done"} /\ now <= lineBy[v] /\ until'[v] = now + IoTimeout
        /\ UNCHANGED <<pc, lineBy, ready>>
    BY <1>9 DEF HearsPiece, Reading
  <2> QED BY <2>1
<1>10. CASE HearsReady(v)      BY <1>10 DEF HearsReady
<1>11. CASE PeerIsReady(v)
  <2>1. now < ConnectTimeout + 2 * IoTimeout /\ sync /\ v \in ready
    BY <1>11 DEF PeerIsReady
  <2>2. CASE LastPeer(v)
    BY <1>11, <2>1, <2>2, LimitValue DEF PeerIsReady
  <2>3. CASE ~LastPeer(v)
    BY <1>11, <2>1, <2>3 DEF PeerIsReady
  <2> QED BY <2>2, <2>3
<1>12. CASE PeerTimesOut(v)    BY <1>12 DEF PeerTimesOut
<1>13. CASE HearsHello(v)      BY <1>13 DEF HearsHello
<1>14. CASE IoFails(v)         BY <1>14 DEF IoFails, MarkError
<1>15. CASE HearsDone(v)       BY <1>15 DEF HearsDone
<1>16. CASE Closes(v)          BY <1>16 DEF Closes
<1> QED
  BY <1>4, <1>5, <1>6, <1>7, <1>8, <1>9, <1>10, <1>11, <1>12, <1>13, <1>14, <1>15, <1>16 DEF Thread

LEMMA ThreadTime ==
  ASSUME TypeOK, TimeInv, NEW v \in Vms, VmConnects(v) \/ Thread(v)
  PROVE  TimeInv'
<1>1. /\ UNCHANGED <<server, sync, now, joining, joinUntil, answer>> /\ ready \subseteq ready'
      /\ \A w \in Vms \ {v} : pc[w]' = pc[w] /\ until[w]' = until[w] /\ lineBy[w]' = lineBy[w]
  BY ThreadFrame
<1>2. ThreadLimit' = ThreadLimit /\ Budget' = Budget
  BY <1>1 DEF ThreadLimit, Budget
<1>3. server = "vsock" => Early(v)'
  BY ThreadEarly DEF TimeInv
<1>4. ASSUME NEW w \in Vms \ {v}, server = "vsock" PROVE Early(w)'
  <2>1. Early(w)
    BY <1>4 DEF TimeInv
  <2> QED BY <1>1, <1>2, <2>1 DEF Early
<1> QED
  BY <1>1, <1>2, <1>3, <1>4 DEF TimeInv

\* Time passes only while every thread that is at work may still wait, and none may wait
\* for the limit.
LEMMA TickTime ==
  ASSUME TypeOK, TimeInv, Tick
  PROVE  TimeInv'
<1>1. /\ pc \in [Vms -> Steps] /\ until \in [Vms -> Nat] /\ peer \in [Vms -> Vms] /\ now \in Nat
      /\ ConnectTimeout \in Nat /\ IoTimeout \in Nat \ {0} /\ ThreadLimit \in Nat /\ Budget \in Nat
      /\ sync \in BOOLEAN /\ N \in Nat /\ ConnectTimeout + 2 * IoTimeout <= ThreadLimit
  BY ProbeAssumption, LimitValue DEF TypeOK, Budget
<1>2. /\ now' = now + 1 /\ \A v \in Vms : Waiting(v)
      /\ UNCHANGED <<server, sync, pc, until, lineBy, ready, failed, results, joining, joinUntil, answer>>
  BY DEF Tick, callVars, callerVars
<1>3. ThreadLimit' = ThreadLimit /\ Budget' = Budget
  BY <1>2 DEF ThreadLimit, Budget
<1>4. ASSUME server = "vsock", NEW v \in Vms, v \notin ready
      PROVE  now + 1 < ConnectTimeout + 2 * IoTimeout
  <2>1. Waiting(v) /\ Early(v) /\ pc[v] \in {"connect", "ready"}
    BY <1>2, <1>4 DEF TimeInv, Early
  <2> QED  BY <1>1, <2>1 DEF Waiting, Early
<1>5. ASSUME server = "vsock", NEW v \in Vms, pc[v] = "peers"
      PROVE  now + 1 < ConnectTimeout + 2 * IoTimeout
  <2>1. peer[v] \in Vms \ ready
    BY <1>1, <1>2, <1>5 DEF Waiting, Reading
  <2> QED  BY <1>4, <1>5, <2>1
<1>6. ASSUME server = "vsock", NEW v \in Vms PROVE Early(v)'
  <2>1. Early(v)
    BY <1>6 DEF TimeInv
  <2> QED  BY <1>2, <1>3, <1>5, <1>6, <2>1 DEF Early
<1>7. ASSUME answer = NoAnswer PROVE joining \in Vms /\ pc[joining] # "ended" /\ now < joinUntil
  BY <1>1, <1>7 DEF Tick, TypeOK, Vms
<1>8. ASSUME server = "vsock", answer = NoAnswer PROVE now + 1 < ThreadLimit
  <2>1. Waiting(joining) /\ Early(joining) /\ pc[joining] \in Steps /\ joining \in Vms
    BY <1>1, <1>2, <1>7, <1>8 DEF TimeInv
  <2>2. CASE pc[joining] = "peers"
    <3>1. now + 1 < ConnectTimeout + 2 * IoTimeout
      BY <1>5, <1>8, <2>1, <2>2
    <3> QED  BY <1>1, <3>1
  <2>3. CASE pc[joining] # "peers"
    <3>1. pc[joining] \in {"connect", "ready", "done"} /\ now < until[joining]
      BY <1>7, <1>8, <2>1, <2>3 DEF Waiting, Early, Reading
    <3>2. until[joining] \in Nat
      BY <1>1, <2>1
    <3> QED BY <1>1, <2>1, <3>1, <3>2 DEF Early
  <2> QED  BY <2>2, <2>3
<1>9. ASSUME server = "serial", answer = NoAnswer PROVE now + 1 <= Budget
  BY <1>1, <1>7, <1>9 DEF TimeInv
<1> QED
  BY <1>2, <1>3, <1>6, <1>8, <1>9 DEF TimeInv

LEMMA NextTime == TypeOK /\ TimeInv /\ [Next]_vars => TimeInv'
<1> SUFFICES ASSUME TypeOK, TimeInv, [Next]_vars PROVE TimeInv'
  OBVIOUS
<1>1. ASSUME NEW v \in Vms, VmConnects(v) \/ Thread(v) PROVE TimeInv'
  BY <1>1, ThreadTime
<1>2. CASE Joins \/ JoinTimesOut \/ Answers
  <2>1. /\ UNCHANGED <<server, sync, now, pc, until, lineBy>> /\ ready \subseteq ready'
        /\ server = "serial" => joinUntil' = joinUntil
        /\ answer' = answer \/ answer = NoAnswer
    BY <1>2 DEF Joins, JoinTimesOut, Joined, GiveUpOn, MarkError, Answers, callVars
  <2>2. ThreadLimit' = ThreadLimit /\ Budget' = Budget
    BY <2>1 DEF ThreadLimit, Budget
  <2>3. ASSUME server = "vsock", NEW v \in Vms PROVE Early(v)'
    <3>1. Early(v)
      BY <2>3 DEF TimeInv
    <3> QED  BY <2>1, <2>2, <3>1 DEF Early
  <2> QED  BY <2>1, <2>2, <2>3 DEF TimeInv
<1>3. CASE Tick
  BY <1>3, TickTime
<1>4. CASE UNCHANGED vars
  BY <1>4 DEF vars, TimeInv, Early, ThreadLimit, Budget
<1> QED
  BY <1>1, <1>2, <1>3, <1>4 DEF Next

\* Whatever the VMs do, however many there are and in however many pieces they send their
\* lines, a subnet probe is answered within the connect timeout and two I/O timeouts for
\* each phase on a vsock, and within what the caller has planned on a serial port.
THEOREM ProbeAnswersInTime == Spec => []AnswerInTime
<1>1. Init => TypeOK /\ TimeInv
  BY InitType, InitTime
<1>2. TypeOK /\ TimeInv /\ [Next]_vars => (TypeOK /\ TimeInv)'
  BY NextType, NextTime
<1>3. TypeOK /\ TimeInv => AnswerInTime
  BY DEF TypeOK, TimeInv, AnswerInTime
<1> QED
  BY <1>1, <1>2, <1>3, PTL DEF Spec

-----------------------------------------------------------------------------
(* The completeness of the answer.  A thread that has come to its end has  *)
(* left an entry, so a VM without one has been given up; on a vsock that   *)
(* took the whole budget of the caller, which starts anew for each thread, *)
(* and all of it is over before the limit.                                 *)

Entered(v) == v \in failed \cup results

\* The VMs whose threads are joined or given up and that have no entry.
Missing == {v \in Vms : v < joining /\ ~Entered(v)}

AnswerInv ==
  /\ \A v \in Vms : pc[v] \in {"close", "ended"} => Entered(v)
  /\ server = "serial" => Missing = {}
  /\ server = "vsock" => /\ Cardinality(Missing) * Budget + Budget <= joinUntil
                         /\ joinUntil <= now + Budget
  /\ AnswerIsComplete

LEMMA Monotone ==
  ASSUME NEW m \in Nat, NEW n \in Nat, NEW b \in Nat, m <= n
  PROVE  m * b <= n * b /\ m * b \in Nat /\ n * b \in Nat
<1>1. PICK d \in Nat : n = m + d
  BY n - m \in Nat
<1>2. n * b = m * b + d * b /\ d * b \in Nat /\ m * b \in Nat
  BY <1>1
<1> QED BY <1>2

LEMMA MissingFinite ==
  ASSUME TypeOK
  PROVE  /\ IsFiniteSet(Missing) /\ Cardinality(Missing) \in Nat
         /\ \A S \in SUBSET Missing : IsFiniteSet(S) /\ Cardinality(S) \in Nat
                                      /\ Cardinality(S) <= Cardinality(Missing)
<1>1. IsFiniteSet(Vms)
  BY FS_Interval, ProbeAssumption DEF Vms
<1>2. IsFiniteSet(Missing)
  BY <1>1, FS_Subset DEF Missing
<1> QED
  BY <1>2, FS_Subset, FS_CardinalityType

LEMMA InitAnswer == Init => AnswerInv
<1> SUFFICES ASSUME Init PROVE AnswerInv
  OBVIOUS
<1>1. \A v \in Vms : ~(v < joining) /\ pc[v] \notin {"close", "ended"}
  BY DEF Init, Vms
<1>2. Missing = {}
  BY <1>1 DEF Missing
<1>3. Cardinality(Missing) = 0
  BY <1>2, FS_EmptySet
<1>4. AnswerIsComplete
  BY DEF Init, AnswerIsComplete
<1>5. Budget \in Nat /\ joinUntil = Budget /\ now = 0
  BY ProbeAssumption DEF Init, Budget
<1> QED
  BY <1>1, <1>2, <1>3, <1>4, <1>5 DEF AnswerInv

\* The fewer VMs are missing and the later the caller gives up, the better.
LEMMA KeepsAnswer ==
  ASSUME TypeOK, AnswerInv, UNCHANGED server, Missing' \subseteq Missing,
         \A v \in Vms : pc[v]' \in {"close", "ended"} => Entered(v)', AnswerIsComplete',
         server = "vsock" => joinUntil <= joinUntil' /\ joinUntil' <= now' + Budget /\ joinUntil' \in Nat
  PROVE  AnswerInv'
<1>1. Budget' = Budget /\ Budget \in Nat /\ joinUntil \in Nat
  BY ProbeAssumption DEF Budget, TypeOK
<1>2. server = "serial" => Missing' = {}
  BY DEF AnswerInv
<1>3. ASSUME server = "vsock" PROVE Cardinality(Missing') * Budget + Budget <= joinUntil'
  <2> DEFINE n == Cardinality(Missing)
             m == Cardinality(Missing')
  <2>1. n \in Nat /\ m \in Nat /\ m <= n
    BY MissingFinite
  <2>2. n * Budget + Budget <= joinUntil
    BY <1>3 DEF AnswerInv
  <2> HIDE DEF n, m
  <2>3. m * Budget <= n * Budget /\ m * Budget \in Nat /\ n * Budget \in Nat
    BY <1>1, <2>1, Monotone
  <2>4. m * Budget + Budget <= joinUntil'
    BY <1>1, <1>3, <2>2, <2>3
  <2> QED BY <2>4 DEF m
<1> QED
  BY <1>1, <1>2, <1>3 DEF AnswerInv

LEMMA ThreadAnswer ==
  ASSUME TypeOK, AnswerInv, NEW v \in Vms, VmConnects(v) \/ Thread(v)
  PROVE  AnswerInv'
<1>1. /\ UNCHANGED <<server, sync, now, joining, joinUntil, answer>>
      /\ failed \subseteq failed' /\ results \subseteq results'
      /\ \A w \in Vms \ {v} : pc[w]' = pc[w]
  BY ThreadFrame
<1>2. \A w \in Vms : Entered(w) => Entered(w)'
  BY <1>1 DEF Entered
<1>3. pc[v]' \in {"close", "ended"} => Entered(v)'
  <2>1. pc[v] \in {"close", "ended"} => Entered(v)
    BY DEF AnswerInv
  <2> USE <1>1, <2>1 DEF TypeOK, Goes, Waits, Entered
  <2>2. CASE VmConnects(v)       BY <2>2 DEF VmConnects
  <2>3. CASE Starts(v)           BY <2>3 DEF Starts, MarkError
  <2>4. CASE Connects(v)         BY <2>4 DEF Connects, SendConfig
  <2>5. CASE ConnectTimesOut(v)  BY <2>5 DEF ConnectTimesOut, MarkError
  <2>6. CASE GreetingOver(v)     BY <2>6 DEF GreetingOver, SendConfig
  <2>7. CASE HearsPiece(v)       BY <2>7 DEF HearsPiece
  <2>8. CASE HearsReady(v)       BY <2>8 DEF HearsReady
  <2>9. CASE PeerIsReady(v)      BY <2>9 DEF PeerIsReady
  <2>10. CASE PeerTimesOut(v)    BY <2>10 DEF PeerTimesOut
  <2>11. CASE HearsHello(v)      BY <2>11 DEF HearsHello
  <2>12. CASE IoFails(v)         BY <2>12 DEF IoFails, MarkError
  <2>13. CASE HearsDone(v)       BY <2>13 DEF HearsDone
  <2>14. CASE Closes(v)          BY <2>14 DEF Closes
  <2> QED
    BY <2>2, <2>3, <2>4, <2>5, <2>6, <2>7, <2>8, <2>9, <2>10, <2>11, <2>12, <2>13, <2>14 DEF Thread
<1>4. Missing' \subseteq Missing
  BY <1>1, <1>2 DEF Missing
<1>5. AnswerIsComplete'
  BY <1>1 DEF AnswerInv, AnswerIsComplete, Unaccounted, ThreadLimit, Budget
<1>6. server = "vsock" => joinUntil <= joinUntil' /\ joinUntil' <= now' + Budget /\ joinUntil' \in Nat
  BY <1>1 DEF AnswerInv, TypeOK
<1>7. \A w \in Vms : pc[w]' \in {"close", "ended"} => Entered(w)'
  BY <1>1, <1>2, <1>3 DEF AnswerInv
<1> QED
  BY <1>1, <1>4, <1>5, <1>6, <1>7, KeepsAnswer

LEMMA NextAnswer == TypeOK /\ TimeInv /\ AnswerInv /\ [Next]_vars => AnswerInv'
<1> SUFFICES ASSUME TypeOK, TimeInv, AnswerInv, [Next]_vars PROVE AnswerInv'
  OBVIOUS
<1>1. ASSUME NEW v \in Vms, VmConnects(v) \/ Thread(v) PROVE AnswerInv'
  BY <1>1, ThreadAnswer
<1>2. /\ now \in Nat /\ joining \in Nat /\ joinUntil \in Nat /\ Budget \in Nat /\ N \in Nat
      /\ server \in {"vsock", "serial"} /\ Vms \subseteq Nat
  BY ProbeAssumption DEF TypeOK, Budget, Vms
<1>3. ASSUME UNCHANGED <<server, sync, answer>> PROVE AnswerIsComplete'
  BY <1>3 DEF AnswerInv, AnswerIsComplete, Unaccounted, ThreadLimit, Budget
<1>4. CASE Joins
  <2>1. /\ UNCHANGED <<server, sync, now, pc, failed, results, answer>> /\ joining' = joining + 1
        /\ joining \in Vms /\ pc[joining] = "ended"
        /\ server = "vsock" => joinUntil' = now + Budget
    BY <1>2, <1>4 DEF Joins, Joined, callVars, Vms, TypeOK
  <2>2. Missing' \subseteq Missing
    <3>1. Entered(joining)
      BY <2>1 DEF AnswerInv
    <3>2. \A v \in Vms : v < joining + 1 => v < joining \/ v = joining
      BY <1>2
    <3> QED BY <2>1, <3>1, <3>2 DEF Missing, Entered
  <2>3. \A v \in Vms : pc[v]' \in {"close", "ended"} => Entered(v)'
    BY <2>1 DEF AnswerInv, Entered
  <2>4. server = "vsock" => joinUntil <= joinUntil' /\ joinUntil' <= now' + Budget /\ joinUntil' \in Nat
    BY <1>2, <2>1 DEF AnswerInv
  <2> QED BY <1>3, <2>1, <2>2, <2>3, <2>4, KeepsAnswer
<1>5. CASE JoinTimesOut
  <2>1. /\ UNCHANGED <<server, sync, now, pc, results, answer>> /\ joining' = joining + 1
        /\ joining \in Vms /\ now >= joinUntil /\ failed \subseteq failed'
        /\ server = "vsock" => joinUntil' = now + Budget
        /\ server = "serial" => joining \in failed'
    BY <1>2, <1>5 DEF JoinTimesOut, Joined, GiveUpOn, MarkError, callVars, Vms, TypeOK
  <2>2. \A v \in Vms : pc[v]' \in {"close", "ended"} => Entered(v)'
    BY <2>1 DEF AnswerInv, Entered
  <2>3. Missing' \subseteq Missing \cup {joining}
    <3>1. \A v \in Vms : v < joining + 1 => v < joining \/ v = joining
      BY <1>2
    <3> QED BY <2>1, <3>1 DEF Missing, Entered
  <2>4. CASE server = "serial"
    <3>1. Missing' \subseteq {joining}
      BY <2>3, <2>4 DEF AnswerInv
    <3>2. Missing' = {}
      BY <2>1, <2>4, <3>1 DEF Missing, Entered
    <3> QED BY <1>3, <2>1, <2>2, <2>4, <3>2 DEF AnswerInv
  <2>5. CASE server = "vsock"
    <3> DEFINE n == Cardinality(Missing)
               m == Cardinality(Missing')
    <3>1. n \in Nat /\ m \in Nat /\ m <= n + 1
      <4>1. IsFiniteSet(Missing) /\ n \in Nat
        BY MissingFinite
      <4>2. /\ IsFiniteSet(Missing \cup {joining})
            /\ Cardinality(Missing \cup {joining}) \in Nat /\ Cardinality(Missing \cup {joining}) <= n + 1
        BY <4>1, FS_AddElement, FS_CardinalityType
      <4>3. IsFiniteSet(Missing') /\ m <= Cardinality(Missing \cup {joining})
        BY <2>3, <4>2, FS_Subset
      <4>4. m \in Nat
        BY <4>3, FS_CardinalityType
      <4> HIDE DEF n, m
      <4> QED BY <4>1, <4>2, <4>3, <4>4
    <3>2. n * Budget + Budget <= joinUntil
      BY <2>5 DEF AnswerInv
    <3> HIDE DEF n, m
    <3>3. m * Budget <= (n + 1) * Budget
      BY <1>2, <3>1, Monotone
    <3>4. (n + 1) * Budget = n * Budget + Budget /\ n * Budget \in Nat /\ m * Budget \in Nat
      BY <1>2, <3>1
    <3>5. m * Budget + Budget <= joinUntil' /\ joinUntil' <= now' + Budget
      BY <1>2, <2>1, <2>5, <3>2, <3>3, <3>4
    <3>6. Budget' = Budget
      BY DEF Budget
    <3> QED BY <1>3, <2>1, <2>2, <2>5, <3>5, <3>6 DEF AnswerInv, m
  <2> QED BY <1>2, <2>4, <2>5
<1>6. CASE Answers
  <2>1. /\ UNCHANGED <<server, sync, now, pc, failed, results, joining, joinUntil>>
        /\ joining = N + 1 /\ answer = NoAnswer
        /\ answer' = [v \in Vms |-> [result |-> v \in results,
                                     error  |-> v \in failed \/ (abort /\ v \notin results)]]
    BY <1>6 DEF Answers, callVars
  <2>2. Unaccounted' \subseteq Missing
    <3>1. \A v \in Vms : v < joining
      BY <1>2, <2>1 DEF Vms
    <3> QED BY <2>1, <3>1 DEF Unaccounted, Missing, Entered
  <2>3. AnswerIsComplete'
    <3>1. CASE server = "serial"
      BY <2>1, <2>2, <3>1 DEF AnswerInv, AnswerIsComplete
    <3>2. CASE server = "vsock"
      <4> DEFINE n == Cardinality(Missing)
                 u == Cardinality(Unaccounted')
      <4>1. n \in Nat /\ u \in Nat /\ u <= n
        BY <2>2, MissingFinite
      <4>2. n * Budget + Budget <= joinUntil /\ joinUntil <= now + Budget /\ now < ThreadLimit
        BY <2>1, <3>2 DEF AnswerInv, TimeInv
      <4>3. ThreadLimit' = ThreadLimit /\ Budget' = Budget /\ ThreadLimit \in Nat
        BY <2>1, LimitValue DEF ThreadLimit, Budget
      <4> HIDE DEF n, u
      <4>4. u * Budget <= n * Budget /\ u * Budget \in Nat /\ n * Budget \in Nat
        BY <1>2, <4>1, Monotone
      <4>5. u * Budget < ThreadLimit
        BY <1>2, <4>2, <4>3, <4>4
      <4> QED BY <2>1, <3>2, <4>3, <4>5 DEF AnswerIsComplete, u
    <3> QED BY <1>2, <3>1, <3>2
  <2>4. Missing' = Missing
    BY <2>1 DEF Missing, Entered
  <2> QED BY <2>1, <2>3, <2>4 DEF AnswerInv, Entered, Budget
<1>7. CASE Tick
  <2>1. /\ now' = now + 1
        /\ UNCHANGED <<server, sync, pc, failed, results, joining, joinUntil, answer>>
    BY <1>7 DEF Tick, callVars, callerVars
  <2>2. Missing' = Missing /\ \A v \in Vms : pc[v]' \in {"close", "ended"} => Entered(v)'
    BY <2>1 DEF AnswerInv, Missing, Entered
  <2>3. server = "vsock" => joinUntil <= joinUntil' /\ joinUntil' <= now' + Budget /\ joinUntil' \in Nat
    BY <1>2, <2>1 DEF AnswerInv
  <2> QED BY <1>3, <2>1, <2>2, <2>3, KeepsAnswer
<1>8. CASE UNCHANGED vars
  <2>1. UNCHANGED <<server, sync, now, pc, failed, results, joining, joinUntil, answer>>
    BY <1>8 DEF vars
  <2>2. Missing' = Missing /\ \A v \in Vms : pc[v]' \in {"close", "ended"} => Entered(v)'
    BY <2>1 DEF AnswerInv, Missing, Entered
  <2>3. server = "vsock" => joinUntil <= joinUntil' /\ joinUntil' <= now' + Budget /\ joinUntil' \in Nat
    BY <1>2, <2>1 DEF AnswerInv
  <2> QED BY <1>3, <2>1, <2>2, <2>3, KeepsAnswer
<1> QED
  BY <1>1, <1>4, <1>5, <1>6, <1>7, <1>8 DEF Next

\* However many VMs there are, the answer of the serial server accounts for each, and that
\* of the vsock server for all but the few whose waits fit into the time a thread may take.
THEOREM ProbeAnswerIsComplete == Spec => []AnswerIsComplete
<1>1. Init => TypeOK /\ TimeInv /\ AnswerInv
  BY InitType, InitTime, InitAnswer
<1>2. TypeOK /\ TimeInv /\ AnswerInv /\ [Next]_vars => (TypeOK /\ TimeInv /\ AnswerInv)'
  BY NextType, NextTime, NextAnswer
<1>3. AnswerInv => AnswerIsComplete
  BY DEF AnswerInv
<1> QED
  BY <1>1, <1>2, <1>3, PTL DEF Spec
==============================================================================
