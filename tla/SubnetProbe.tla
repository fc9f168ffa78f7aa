----------------------------- MODULE SubnetProbe -----------------------------
(***************************************************************************)
(* run_subnet_probe of the two probe servers, VsockProbeServer             *)
(* (vsock_probe.py) and SerialProbeServer (serial_probe.py).  A thread for *)
(* each VM waits until it connects, sends it its configuration and what to *)
(* probe, in one message or, if sync, in two, and waits for the results;   *)
(* the caller joins the threads, for a limited time, and answers.          *)
(*                                                                         *)
(* The VMs are external: they connect, answer, in one piece or in several, *)
(* send something unexpected, hang up or are silent.  Time passes in       *)
(* units, and only when no thread can go on.                               *)
(*                                                                         *)
(* Both recv look at the deadline of a line only when a piece has come,    *)
(* before they wait for the next one, and that wait has a timeout of its   *)
(* own: a line whose pieces come slowly takes up to twice its time.        *)
(***************************************************************************)
EXTENDS Integers, FiniteSets

CONSTANTS
  Servers,         \* which of "vsock" and "serial" are considered
  N,               \* number of VMs
  ConnectTimeout,
  IoTimeout,       \* for one line, and of the socket
  Grace,           \* hello_grace, for the line in which a VM on a serial port may say hello
  Slack,           \* what the caller waits in addition to both
  MaxTime          \* bound: when time stops

ASSUME ProbeAssumption ==
  /\ Servers \subseteq {"vsock", "serial"}
  /\ N \in Nat \ {0}
  /\ ConnectTimeout \in Nat /\ IoTimeout \in Nat \ {0} /\ Grace \in 0..IoTimeout
  /\ Slack \in Nat \ {0} /\ MaxTime \in Nat

Vms == 1..N

VARIABLES
  server,       \* "vsock" or "serial"
  sync,         \* whether the VMs probe each other
  now,
  connected,    \* VMs whose connection waits for its thread or is used by it
  pc,           \* of the threads: [VM -> step]
  until,        \* [VM -> when the call its thread waits in times out]
  lineBy,       \* [VM -> deadline of the line its thread reads]
  peer,         \* [VM -> the VM its thread waits for]
  helloed,      \* VMs that have said an extra hello while their thread waits for more
  ready,        \* ready_events that are set
  failed,       \* VMs with an entry in errors
  results,      \* VMs with an entry in results
  abort,        \* abort_event
  joining,      \* the thread the caller joins, N + 1 if it has done with all
  joinUntil,
  answer        \* once there is one: [VM -> [result, error]]

vars == <<server, sync, now, connected, pc, until, lineBy, peer, helloed, ready, failed, results, abort,
          joining, joinUntil, answer>>
callVars   == <<server, sync>>
callerVars == <<joining, joinUntil, answer>>

Reading == {"hello", "ready", "done"}   \* a thread waits for a line of its VM
Steps == {"start", "connect", "peers", "close", "ended"} \cup Reading
NoAnswer == [v \in {} |-> [result |-> FALSE, error |-> FALSE]]

TypeOK ==
  /\ server \in {"vsock", "serial"} /\ sync \in BOOLEAN /\ abort \in BOOLEAN
  /\ now \in Nat /\ joinUntil \in Nat /\ joining \in 1..N + 1
  /\ pc \in [Vms -> Steps] /\ until \in [Vms -> Nat] /\ lineBy \in [Vms -> Nat] /\ peer \in [Vms -> Vms]
  /\ connected \subseteq Vms /\ helloed \subseteq Vms /\ ready \subseteq Vms
  /\ failed \subseteq Vms /\ results \subseteq Vms
  /\ answer \in {NoAnswer} \cup [Vms -> [result : BOOLEAN, error : BOOLEAN]]

\* How long the caller waits for a thread.
Budget == ConnectTimeout + IoTimeout + Slack

Init ==
  /\ server \in Servers /\ sync \in BOOLEAN
  /\ now = 0 /\ connected \in SUBSET Vms
  /\ pc = [v \in Vms |-> IF server = "serial" THEN "start" ELSE "connect"]
  /\ until = [v \in Vms |-> ConnectTimeout] /\ lineBy = until
  /\ peer = [v \in Vms |-> 1]
  /\ helloed = {} /\ ready = {} /\ failed = {} /\ results = {} /\ abort = FALSE
  /\ joining = 1 /\ joinUntil = Budget /\ answer = NoAnswer

-----------------------------------------------------------------------------
(***************************************************************************)
(* The thread of a VM                                                      *)
(***************************************************************************)

Waits(v, step, deadline, timeout) ==
  /\ pc' = [pc EXCEPT ![v] = step]
  /\ until' = [until EXCEPT ![v] = timeout]
  /\ lineBy' = [lineBy EXCEPT ![v] = deadline]
  /\ helloed' = helloed \ {v}

Goes(v, step, deadline) == Waits(v, step, deadline, deadline)

\* Faulty: the event stays unset.
FailsSilently(v) ==
  /\ failed' = failed \cup {v}
  /\ abort' = (server = "serial")
  /\ UNCHANGED ready

\* An error, after which nobody need wait for the VM.
MarkError(v) ==
  /\ failed' = failed \cup {v}
  /\ abort' = (server = "serial")
  /\ ready' = ready \cup {v}

\* On a serial port: before it accepts, a thread looks whether another VM has failed.
Starts(v) ==
  /\ pc[v] = "start"
  /\ IF abort THEN Goes(v, "close", now) /\ MarkError(v)
              ELSE Goes(v, "connect", until[v]) /\ UNCHANGED <<failed, abort, ready>>
  /\ UNCHANGED <<callVars, now, connected, peer, results, callerVars>>

VmConnects(v) ==
  /\ v \notin connected /\ pc[v] \in {"start", "connect"}
  /\ connected' = connected \cup {v}
  /\ UNCHANGED <<callVars, now, pc, until, lineBy, peer, helloed, ready, failed, results, abort, callerVars>>

\* The configuration is sent, and unless sync the targets with it.
SendConfig(v) ==
  /\ Goes(v, IF sync THEN "ready" ELSE "done", now + IoTimeout)
  /\ ready' = IF sync THEN ready ELSE ready \cup {v}

\* On a serial port the VM may say hello first.  The grace period is the deadline of that
\* line; the timeout of the socket is IoTimeout as ever.
Connects(v) ==
  /\ pc[v] = "connect" /\ v \in connected
  /\ server = "vsock" => now < until[v]
  /\ IF server = "serial" THEN Waits(v, "hello", now + Grace, now + IoTimeout) /\ UNCHANGED ready
                          ELSE SendConfig(v)
  /\ UNCHANGED <<callVars, now, connected, peer, failed, results, abort, callerVars>>

\* The VM has said hello or something else (a message that comes too early is taken for the
\* answer to the configuration, as if it came after it), or reading has failed in some way.
GreetingOver(v) ==
  /\ pc[v] = "hello"
  /\ SendConfig(v)
  /\ UNCHANGED <<callVars, now, connected, peer, failed, results, abort, callerVars>>

\* Faulty: the deadline of a line is not looked at.
HearsAnyPiece(v) ==
  /\ pc[v] \in Reading /\ now <= until[v]
  /\ until' = [until EXCEPT ![v] = now + IoTimeout]
  /\ UNCHANGED <<callVars, now, connected, pc, lineBy, peer, helloed, ready, failed, results, abort,
                 callerVars>>

\* A piece of a line.  One that comes after the deadline is the last, see IoFails.
HearsPiece(v) ==
  /\ pc[v] \in Reading /\ now <= until[v] /\ now <= lineBy[v]
  /\ until' = [until EXCEPT ![v] = now + IoTimeout]
  /\ UNCHANGED <<callVars, now, connected, pc, lineBy, peer, helloed, ready, failed, results, abort,
                 callerVars>>

\* Faulty: there is no limit.
NeverConnects(v) == FALSE

ConnectTimesOut(v) ==
  /\ pc[v] = "connect" /\ now >= until[v]
  /\ Goes(v, IF server = "vsock" THEN "ended" ELSE "close", now)
  /\ MarkError(v)
  /\ UNCHANGED <<callVars, now, connected, peer, results, callerVars>>

\* A serial server sends the targets at once; a vsock server waits for the other VMs.
HearsReady(v) ==
  /\ pc[v] = "ready" /\ now <= until[v]
  /\ ready' = ready \cup {v}
  /\ IF server = "vsock" THEN Goes(v, "peers", now + ConnectTimeout)
                         ELSE Goes(v, "done", now + IoTimeout)
  /\ UNCHANGED <<callVars, now, connected, peer, failed, results, abort, callerVars>>

\* Faulty: the last peer is not waited for.
LastButOne(v) == peer[v] >= N - 1

\* Faulty: one peer too many is waited for.
LastOffByOne(v) == peer[v] = N + 1

LastPeer(v) == peer[v] = N

\* The wait for each peer may take the whole connect timeout.
PeerIsReady(v) ==
  /\ pc[v] = "peers" /\ peer[v] \in ready
  /\ IF LastPeer(v)
     THEN Goes(v, "done", now + IoTimeout) /\ UNCHANGED peer
     ELSE Goes(v, "peers", now + ConnectTimeout) /\ peer' = [peer EXCEPT ![v] = @ + 1]
  /\ UNCHANGED <<callVars, now, connected, ready, failed, results, abort, callerVars>>

PeerTimesOut(v) ==
  /\ pc[v] = "peers" /\ peer[v] \notin ready /\ now >= until[v]
  /\ Goes(v, "close", now)
  /\ failed' = failed \cup {v}
  /\ UNCHANGED <<callVars, now, connected, peer, ready, results, abort, callerVars>>

\* On a serial port one more hello is passed over, and the wait starts again.
HearsHello(v) ==
  /\ server = "serial" /\ pc[v] \in {"ready", "done"} /\ v \notin helloed /\ now <= until[v]
  /\ helloed' = helloed \cup {v}
  /\ until' = [until EXCEPT ![v] = now + IoTimeout] /\ lineBy' = [lineBy EXCEPT ![v] = now + IoTimeout]
  /\ UNCHANGED <<callVars, now, connected, pc, peer, ready, failed, results, abort, callerVars>>

\* Something unexpected, a closed connection, a piece after the deadline, or nothing until
\* the socket times out.
IoFails(v) ==
  /\ pc[v] \in {"ready", "done"}
  /\ Goes(v, "close", now)
  /\ MarkError(v)
  /\ UNCHANGED <<callVars, now, connected, peer, results, callerVars>>

HearsDone(v) ==
  /\ pc[v] = "done" /\ now <= until[v]
  /\ Goes(v, "close", now)
  /\ results' = results \cup {v}
  /\ UNCHANGED <<callVars, now, connected, peer, ready, failed, abort, callerVars>>

Closes(v) ==
  /\ pc[v] = "close"
  /\ Goes(v, "ended", now)
  /\ connected' = connected \ {v}
  /\ UNCHANGED <<callVars, now, peer, ready, failed, results, abort, callerVars>>

Thread(v) ==
  \/ Starts(v) \/ Connects(v) \/ ConnectTimesOut(v) \/ GreetingOver(v) \/ HearsPiece(v) \/ HearsReady(v)
  \/ PeerIsReady(v) \/ PeerTimesOut(v) \/ HearsHello(v) \/ IoFails(v) \/ HearsDone(v) \/ Closes(v)

-----------------------------------------------------------------------------
(***************************************************************************)
(* The caller                                                              *)
(***************************************************************************)

\* Faulty: a serial server, too, waits for each thread as long.
JoinedAnew ==
  /\ joining' = joining + 1
  /\ joinUntil' = now + Budget

\* A vsock server waits for each thread as long, a serial server for all.
Joined ==
  /\ joining' = joining + 1
  /\ joinUntil' = IF server = "vsock" THEN now + Budget ELSE joinUntil

Joins ==
  /\ joining <= N /\ pc[joining] = "ended"
  /\ Joined
  /\ UNCHANGED <<callVars, now, connected, pc, until, lineBy, peer, helloed, ready, failed, results, abort,
                 answer>>

\* Faulty: a thread that is still running is passed over.
PassOver(v) == UNCHANGED <<failed, abort, ready>>

\* A serial server marks the VM of a thread that is still running.
GiveUpOn(v) == IF server = "serial" THEN MarkError(v) ELSE UNCHANGED <<failed, abort, ready>>

JoinTimesOut ==
  /\ joining <= N /\ pc[joining] # "ended" /\ now >= joinUntil
  /\ Joined
  /\ GiveUpOn(joining)
  /\ UNCHANGED <<callVars, now, connected, pc, until, lineBy, peer, helloed, results, answer>>

\* What the lists say now; after an abort, what has neither entry counts as an error.
Answers ==
  /\ joining = N + 1 /\ answer = NoAnswer
  /\ answer' = [v \in Vms |-> [result |-> v \in results,
                               error  |-> v \in failed \/ (abort /\ v \notin results)]]
  /\ UNCHANGED <<callVars, now, connected, pc, until, lineBy, peer, helloed, ready, failed, results, abort,
                 joining, joinUntil>>

\* A thread waits for its VM or for another, and not yet for too long.
Waiting(v) ==
  \/ pc[v] = "connect" /\ v \notin connected /\ now < until[v]
  \/ pc[v] \in Reading /\ now < until[v]
  \/ pc[v] = "peers" /\ peer[v] \notin ready /\ now < until[v]
  \/ pc[v] = "ended"

Tick ==
  /\ now < MaxTime
  /\ \A v \in Vms : Waiting(v)
  /\ IF joining <= N THEN pc[joining] # "ended" /\ now < joinUntil ELSE answer # NoAnswer
  /\ \E v \in Vms : pc[v] # "ended"
  /\ now' = now + 1
  /\ UNCHANGED <<callVars, connected, pc, until, lineBy, peer, helloed, ready, failed, results, abort,
                 callerVars>>

Next == (\E v \in Vms : VmConnects(v) \/ Thread(v)) \/ Joins \/ JoinTimesOut \/ Answers \/ Tick

Spec == Init /\ [][Next]_vars

\* Time passes and the threads run; that VMs connect or answer is not assumed.
Runs(v) == Starts(v) \/ Connects(v) \/ ConnectTimesOut(v) \/ PeerIsReady(v) \/ PeerTimesOut(v) \/ Closes(v)
TooLate(v) == (GreetingOver(v) \/ IoFails(v)) /\ now >= until[v]

FairSpec ==
  /\ Spec /\ WF_vars(Tick) /\ WF_vars(Joins \/ JoinTimesOut \/ Answers)
  /\ \A v \in Vms : WF_vars(Runs(v)) /\ WF_vars(TooLate(v))

-----------------------------------------------------------------------------
(***************************************************************************)
(* Properties                                                              *)
(***************************************************************************)

\* How far a VM is.  One whose thread is still running may have been given up.
Phase(v) ==
  CASE v \in failed -> "failed"
    [] v \notin failed /\ v \in results -> "done"
    [] v \notin failed \cup results /\ pc[v] = "done" -> "probing"
    [] v \notin failed \cup results /\ pc[v] = "peers" -> "ready"
    [] OTHER -> "configuring"

Barrier == INSTANCE SyncBarrier WITH waits <- (sync /\ server = "vsock"), phase <- [v \in Vms |-> Phase(v)]

\* The handshake of the vsock server is the barrier it is meant to be; that of the serial
\* server makes nobody wait.
ImplementsBarrier == Barrier!Spec

\* "so all VMs finish network configuration before any begin probing (required for
\* intra-subnet tests)" (serial_probe.py, 220-222).
AllConfiguredFirst ==
  sync /\ (\E v \in Vms : Phase(v) \in {"probing", "done"}) => \A w \in Vms : Phase(w) # "configuring"

\* When a thread of the vsock server has come to its end at the latest: it reads one line
\* or two, and each may take twice its time.
ThreadLimit == ConnectTimeout + (IF sync THEN 4 ELSE 2) * IoTimeout

\* The VMs that have neither a result nor an error in the answer.
Unaccounted == {v \in DOMAIN answer : ~answer[v].result /\ ~answer[v].error}

\* The answer of the serial server has a result or an error for every VM, though the
\* threads were waited for only so long.  That of the vsock server may lack both where a VM
\* sends its lines in pieces: only for as many VMs as such waits fit into the time a thread
\* may take, so for one at most unless sync, however many there are.
AnswerIsComplete ==
  answer # NoAnswer => IF server = "serial" THEN Unaccounted = {}
                       ELSE Cardinality(Unaccounted) * Budget < ThreadLimit

\* Whoever fails sets its event, so that nobody waits for it: an answer of the vsock server
\* takes less than a VM may take to connect, to become ready and to probe, one of the serial
\* server at most what it has planned.
AnswerInTime == answer = NoAnswer => IF server = "serial" THEN now <= Budget ELSE now < ThreadLimit

\* "Wait a short grace period, then continue even if hello is absent" (serial_probe.py,
\* 272-273), and "when timeout is provided, it overrides the default io_timeout for this
\* call" (123).
GraceIsShort == \A v \in Vms : pc[v] = "hello" => now <= lineBy[v]

\* No thread is left behind, whatever the VMs do.
ThreadsEnd == <>(answer # NoAnswer /\ \A v \in Vms : pc[v] = "ended")
==============================================================================
