----------------------------- MODULE RunStream -----------------------------
(***************************************************************************)
(* The server's side of watching a run: the dictionary of running runs,    *)
(* the queue each worker fills with log lines, the readers that empty it,  *)
(* the return code and the cancel event (api/routes_run.py; the log        *)
(* handlers of runner.py).  What the worker does besides is in RunWorker.  *)
(***************************************************************************)
EXTENDS Integers, Sequences, FiniteSets

CONSTANTS
  Workers,   \* one for each POST /api/run, in the order 1, 2, ...
  Missing,   \* no id, no record, no return code
  MaxLines   \* bound: log lines of a worker

ASSUME RunStreamAssumption ==
  /\ IsFiniteSet(Workers) /\ Workers = 1..Cardinality(Workers)
  /\ MaxLines \in Nat
  /\ Missing \notin Nat

VARIABLES
  worker,   \* the threads: where they are, their id, lines written, and the cancel event
            \* (Missing, or for which start the user pressed Cancel)
  runs,     \* deps._runs: which worker's record is stored under an id
  rcode,    \* "returncode" of the record a worker's request made
  queue,    \* "queue" of that record
  stored,   \* result_json: the worker whose outcome an id's row holds
  ghosts,   \* readers of a queue whose client is gone
  reader,   \* the record the page's open connection is read from
  latest    \* the worker of the request handled last

streamVars == <<worker, runs, rcode, queue, stored, ghosts, reader, latest>>

\* Ids are time stamps; an id is named by the first worker that got it.
Ids == Workers
\* 0 is a passed run, 5 a cancelled one, 2 any other.
Codes == {0, 2, 5}
Line(w, n) == [kind |-> "line", from |-> w, n |-> n]
\* A line that no worker wrote.
Notice == [kind |-> "notice"]
Sentinel == [kind |-> "sentinel"]
Lines == {Line(w, n) : w \in Workers, n \in 1..MaxLines} \cup {Notice}

StreamTypeOK ==
  /\ worker \in [Workers -> [pc : {"none", "active", "coded", "ended", "refused", "lost"},
                             id : Ids \cup {Missing}, lines : 0..MaxLines, cancel : Workers \cup {Missing}]]
  /\ runs \in [Ids -> Workers \cup {Missing}]
  /\ rcode \in [Workers -> Codes \cup {Missing}]
  /\ queue \in [Workers -> Seq(Lines \cup {Sentinel})]
  /\ stored \in [Ids -> Workers \cup {Missing}]
  /\ ghosts \in [Workers -> Nat]
  /\ reader \in Workers \cup {Missing}
  /\ latest \in Workers \cup {Missing}

StreamInit ==
  /\ worker = [w \in Workers |-> [pc |-> "none", id |-> Missing, lines |-> 0, cancel |-> Missing]]
  /\ runs = [i \in Ids |-> Missing]
  /\ rcode = [w \in Workers |-> Missing]
  /\ queue = [w \in Workers |-> <<>>]
  /\ stored = [i \in Ids |-> Missing]
  /\ ghosts = [w \in Workers |-> 0]
  /\ reader = Missing
  /\ latest = Missing

Active == {w \in Workers : worker[w].pc = "active"}

-----------------------------------------------------------------------------
(***************************************************************************)
(* Starting and working                                                    *)
(***************************************************************************)

\* The id of a request: of its own, or that of the request before if both come
\* within one second.
IdChoices(w) == {w} \cup {worker[v].id : v \in {latest} \cap Workers}

\* api_start_run up to the answer: the record and the row are made first; a test
\* suite that does not exist is noticed after that, and no thread is started.
StartWorker(w, id, refused) ==
  /\ worker' = [worker EXCEPT ![w].pc = IF refused THEN "refused" ELSE "active", ![w].id = id]
  /\ runs' = [runs EXCEPT ![id] = w]
  /\ latest' = w
  /\ UNCHANGED <<rcode, queue, stored, ghosts, reader>>

\* Every run's handler is on the one logger while the run is at work, and a line goes into
\* all their queues, whoever logs it.
Logged(line) == [w \in Workers |-> IF w \in Active THEN Append(queue[w], line) ELSE queue[w]]

\* A line of worker w.
WriteLine(w) ==
  /\ w \in Active
  /\ worker[w].lines < MaxLines
  /\ queue' = Logged(Line(w, worker[w].lines + 1))
  /\ worker' = [worker EXCEPT ![w].lines = @ + 1]
  /\ UNCHANGED <<runs, rcode, stored, ghosts, reader, latest>>

\* The result or an error is stored, and the finally clause writes the return code into
\* whatever record its id leads to.  A cancel may be noticed or not.
EndWork(w) ==
  /\ w \in Active
  /\ \E rc \in {0, 2} \cup (IF worker[w].cancel # Missing THEN {5} ELSE {}) :
       rcode' = [rcode EXCEPT ![runs[worker[w].id]] = rc]
  /\ stored' = [stored EXCEPT ![worker[w].id] = w]
  /\ worker' = [worker EXCEPT ![w].pc = "coded"]
  /\ UNCHANGED <<runs, queue, ghosts, reader, latest>>

\* Faulty: the sentinel is put before the return code is set.
PutSentinelFirst(w) ==
  /\ worker[w].pc = "active"
  /\ Sentinel \notin {queue[w][i] : i \in DOMAIN queue[w]}
  /\ queue' = [queue EXCEPT ![w] = Append(@, Sentinel)]
  /\ UNCHANGED <<worker, runs, rcode, stored, ghosts, reader, latest>>

\* q.put(None), the last thing a worker does.
PutSentinel(w) ==
  /\ worker[w].pc = "coded"
  /\ queue' = [queue EXCEPT ![w] = Append(@, Sentinel)]
  /\ worker' = [worker EXCEPT ![w].pc = "ended"]
  /\ UNCHANGED <<runs, rcode, stored, ghosts, reader, latest>>

WorkerStep(w) == WriteLine(w) \/ EndWork(w) \/ PutSentinel(w)

-----------------------------------------------------------------------------
(***************************************************************************)
(* Streaming                                                               *)
(***************************************************************************)

\* Faulty: a reader waits for the sentinel alone.
QueuedItems(w) == IF queue[w] # <<>> THEN {Head(queue[w])} ELSE {}

\* Faulty: the return code alone ends a stream.
CodedItems(w) ==
  IF rcode[w] # Missing THEN {Sentinel}
  ELSE IF queue[w] # <<>> THEN {Head(queue[w])} ELSE {}

\* What _get_next of a reader of w's record returns, if it can return: the head of the
\* queue, or the end when the queue is empty and the run has a return code.
NextItems(w) ==
  IF queue[w] # <<>> THEN {Head(queue[w])}
  ELSE IF rcode[w] # Missing THEN {Sentinel} ELSE {}

Taken(w) == [queue EXCEPT ![w] = IF @ = <<>> THEN @ ELSE Tail(@)]

\* A reader whose client is gone notices that only with the next item, which is lost;
\* so is what was on its way when the connection broke.
GhostTakes(w) ==
  /\ ghosts[w] > 0
  /\ NextItems(w) # {}
  /\ queue' = Taken(w)
  /\ \/ ghosts' = [ghosts EXCEPT ![w] = @ - 1]
     \/ queue[w] # <<>> /\ UNCHANGED ghosts
  /\ UNCHANGED <<worker, runs, rcode, stored, reader, latest>>

\* A connection is closed by either side; its reader stays at the queue.
LeaveReader == IF reader # Missing THEN [ghosts EXCEPT ![reader] = @ + 1] ELSE ghosts

-----------------------------------------------------------------------------
(***************************************************************************)
(* Cancelling, and losing everything                                       *)
(***************************************************************************)

\* Faulty: a run that has ended is cancelled too.
MayCancelAny(id) == runs[id] # Missing

\* api_cancel_run: only a run without a return code is cancelled.
MayCancel(id) == runs[id] # Missing /\ rcode[runs[id]] = Missing

\* It says so in the log, that is, to every run at work.
CancelAtServer(id, start) ==
  /\ IF MayCancel(id)
     THEN worker' = [worker EXCEPT ![runs[id]].cancel = start] /\ queue' = Logged(Notice)
     ELSE UNCHANGED <<worker, queue>>
  /\ UNCHANGED <<runs, rcode, stored, ghosts, reader, latest>>

\* Another request that logs, as that for the inventory does.
LogAtServer ==
  /\ Active # {}
  /\ queue' = Logged(Notice)
  /\ UNCHANGED <<worker, runs, rcode, stored, ghosts, reader, latest>>

\* The server restarts: threads, queues and readers are gone, rows stay.
LoseServer ==
  /\ worker' = [w \in Workers |->
                  [worker[w] EXCEPT !.pc = IF @ \in {"active", "coded"} THEN "lost" ELSE @]]
  /\ runs' = [i \in Ids |-> Missing]
  /\ queue' = [w \in Workers |-> <<>>]
  /\ ghosts' = [w \in Workers |-> 0]
  /\ reader' = Missing
  /\ UNCHANGED <<rcode, stored, latest>>
=============================================================================
