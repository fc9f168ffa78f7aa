---------------------------- MODULE RunLifecycle ----------------------------
(***************************************************************************)
(* Runs, clean-up requests, the database and vCenter together: the workers *)
(* of RunWorker and the handlers of CleanupApi interleave over the store   *)
(* of CreatedObjects, and the server may restart at any time.              *)
(*                                                                         *)
(* The question is whether the created_objects registry can be relied upon *)
(* to find every VM again.                                                 *)
(***************************************************************************)
EXTENDS RunWorker, CleanupApi

CONSTANTS
  Quiesced,   \* the operators are careful, see below
  Events      \* bound: which of "cancel", "delete", "restart" ever happen

\* Careful operators clean up, or delete from the history, only runs that have
\* ended, and start no run while a cleanup-all is in progress.  Neither the
\* server nor the UI makes them: with FALSE any request may come at any time.
ASSUME LifecycleAssumption ==
  /\ Quiesced \in BOOLEAN
  /\ Events \subseteq {"cancel", "delete", "restart"}

vars == <<storeVars, workerVars, request>>

CleaningAll(h) ==
  request[h].pc \in {"a-connect", "a-delete", "a-runs", "a-write", "a-status"}

Init == StoreInit /\ WorkerInit /\ ApiInit

Start(r) ==
  /\ Quiesced => \A h \in Handlers : ~CleaningAll(h)
  /\ StartRun(r)
  /\ UNCHANGED request

Cancel(r) == "cancel" \in Events /\ CancelRun(r) /\ UNCHANGED request

Work(r) == WorkerStep(r) /\ UNCHANGED request

\* A client knows the id of a run once the run has started.
CleanupRun(h, r) ==
  /\ pc[r] # "idle"
  /\ Quiesced => ~Active(r)
  /\ ApiCleanupRun(h, r)
  /\ UNCHANGED workerVars

CleanupAll(h) ==
  /\ Quiesced => \A r \in Runs : ~Active(r)
  /\ ApiCleanupAll(h)
  /\ UNCHANGED workerVars

Handle(h) == HandlerStep(h) /\ UNCHANGED workerVars

DeleteHistory(r) ==
  /\ "delete" \in Events
  /\ Quiesced => ~Active(r)
  /\ ApiDeleteHistory(r)
  /\ UNCHANGED workerVars

\* The server process dies and comes back: daemon threads, _runs and handlers
\* are gone, the database file and vCenter stay, nothing is recovered.
Restart ==
  /\ "restart" \in Events
  /\ pc' = [r \in Runs |-> IF pc[r] = "idle" THEN "idle" ELSE "lost"]
  /\ returncode' = [r \in Runs |-> NoCode]
  /\ cancel' = [r \in Runs |-> FALSE]
  /\ EndThreads(Runs)
  /\ request' = [h \in Handlers |-> NoRequest]
  /\ UNCHANGED <<storeVars, requestVars, historyVars>>

Next ==
  \/ \E r \in Runs : Start(r) \/ Cancel(r) \/ Work(r) \/ DeleteHistory(r)
  \/ \E h \in Handlers, r \in Runs : CleanupRun(h, r)
  \/ \E h \in Handlers : CleanupAll(h) \/ Handle(h)
  \/ Restart

Spec == Init /\ [][Next]_vars

-----------------------------------------------------------------------------
TypeOK == StoreTypeOK /\ WorkerTypeOK /\ ApiTypeOK

\* Live VMs of a run that it has handed to on_vm_created.
LiveRegistered(r) == registered[r] \cap inventory

Deleted(r) == runrow[r] = "absent"

\* A VM that was ever entered in a run's row of created_objects and still
\* exists in vCenter is in the row, so that a later clean-up finds it, unless
\* the run was deleted from the history.
RegistryCoversLive ==
  \A r \in Runs : Deleted(r) \/ LiveRegistered(r) \subseteq objrow[r].vms

\* The in-memory registry of a running worker has every such VM, whatever the
\* clean-up endpoints do meanwhile: pruning takes off only what is destroyed.
MemoryCoversLive ==
  \A r \in Runs : Active(r) => LiveRegistered(r) \subseteq mem[r].vms

\* A run that the history shows as cleaned up has no registered VM left, so
\* nothing is lost by the UI's refusal to clean it up again.
ShownCleanMeansGone ==
  \A r \in Runs :
    Deleted(r) \/ (ShownCleanupState(objrow[r]) = "cleanup" => LiveRegistered(r) = {})

\* A run that stored a test result has entered every VM it brought into being,
\* seed VMs included: only runs that end in an error leave strays.
ReportedRunRegisteredAll ==
  \A r \in Runs : runrow[r] \in {"PASS", "FAIL"} => created[r] \subseteq registered[r]

\* VMs that no run created survive, whatever is cleaned up with whatever
\* configured prefix.
ForeignVmsSurvive == Foreign \subseteq inventory

\* When the tests fail or the run is cancelled without cleanup_on_failure, the
\* worker has destroyed nothing of what the last checks ran on.  (A failing
\* intra-subnet phase is excepted, and so is a phased run cancelled after a phase
\* that passed.)
RetainedForTroubleshooting ==
  \A r \in Runs :
    /\ returncode[r] \in {1, 5} /\ ~cfg[r].cleanupOnFailure
    /\ cfg[r].phased => returncode[r] = 1 /\ ~intra[r]
    => inst[r] \cap destroyed[r] = {}

\* The status a run has in the history and the return code its stream ends with say the
\* same, whatever was cancelled, deleted or restarted meanwhile: an error is one in both,
\* and where no UDP rule has rewritten the result, "0=PASS, 1=FAIL".
OutcomesAgree ==
  \A r \in Runs :
    ~Deleted(r) /\ returncode[r] # NoCode =>
      /\ returncode[r] \in 2..5 <=> runrow[r] = "error"
      /\ ~cfg[r].udp => /\ returncode[r] = 0 <=> runrow[r] = "PASS"
                        /\ returncode[r] = 1 <=> runrow[r] = "FAIL"

\* "Returns process-style exit code: 0=PASS, 1=FAIL" (runner.py, 932), of any run.
CodeIsTheVerdict ==
  \A r \in Runs :
    ~Deleted(r) => /\ returncode[r] = 0 => runrow[r] = "PASS"
                   /\ returncode[r] = 1 => runrow[r] = "FAIL"

\* A clean-up request that answers "cleanup" leaves no VM alive that the run's
\* row lists at that moment.
CleanupAnswerIsTrue ==
  [][\A h \in Handlers :
       LET r == request[h].run IN
       /\ request[h].reply = "none" /\ request'[h].reply = "cleanup"
       /\ ~Deleted(r)
       => objrow'[r].vms \cap inventory' = {}]_vars

\* Every VM a settled run created and left alive is in its row.
EveryCreatedVmTracked ==
  \A r \in Runs :
    returncode[r] # NoCode /\ ~Deleted(r)
    => created[r] \cap inventory \subseteq objrow[r].vms

\* The ISO files the operator put on the datastore stay there.
PreStagedIsosStay == PreStaged \subseteq datastore

\* A run stored as FAIL without cleanup_on_failure has kept its VMs.
FailedRunKeepsVms ==
  \A r \in Runs :
    runrow[r] = "FAIL" /\ ~cfg[r].cleanupOnFailure /\ ~cfg[r].phased
    => destroyed[r] = {}
=============================================================================
