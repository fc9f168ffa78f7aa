----------------------------- MODULE RunWorker ------------------------------
(***************************************************************************)
(* The thread that executes one test run: api_start_run's _worker, the     *)
(* execute_run it calls, and what the latter does to vCenter through       *)
(* provisioning.py and cleanup_vms.  Tests are abstracted to a verdict;    *)
(* what is kept is every point at which an object comes into being, is     *)
(* registered, is destroyed or is taken off the registry, every point      *)
(* where a cancel request is noticed, and every point that can raise.      *)
(***************************************************************************)
EXTENDS CreatedObjects, Integers

CONSTANTS
  Configs,     \* the run requests considered, see RunConfig
  ErrorCodes,  \* return codes of a failed run, a subset of 2..4
  MaxPhases    \* bound: phases of a phased run

RunConfig == [phased : BOOLEAN,             \* phased_testing
              cleanupOnFailure : BOOLEAN,   \* cleanup_on_failure
              boot : {"ovf", "memboot"},    \* boot_method
              probe : {"in-guest", "dry-run"},  \* probe_mode
              udp : BOOLEAN]                \* a case comes from a UDP rule

ASSUME WorkerAssumption ==
  /\ Configs \subseteq RunConfig
  /\ ErrorCodes \subseteq 2..4
  /\ MaxPhases \in Nat

VARIABLES
  cfg,         \* the request of each run
  pc,          \* where the worker thread is
  prefix,      \* vm_prefix the worker read from the configuration
  cancel,      \* _runs[run_id]["cancel_event"]
  returncode,  \* _runs[run_id]["returncode"]; NoCode for None
  rc,          \* the value execute_run is about to return
  mem,         \* created_registry, the in-memory registry
  seeds,       \* seed_vm_instances not yet handed to the caller
  fresh,       \* subnet_vm_objs: powered on, not yet made into records
  inst,        \* instances: the records of this provisioning call
  allInst,     \* all_vm_instances
  todo,        \* cleanup_vms: instances still to visit
  failedVms,   \* cleanup_vms: failed_vms
  cleaned,     \* cleanup_vms: some instance was destroyed
  verdict,     \* result of the tests so far
  intra,       \* the phase is "intra-subnet"
  phasesLeft,  \* phases still to run
  created,     \* history: VMs this run brought into being
  registered,  \* history: VMs this run has listed in its table row
  destroyed,   \* history: VMs the worker itself destroyed
  uploaded     \* history: ISO files this run uploaded

requestVars == <<cfg, prefix>>
threadVars  == <<seeds, fresh, inst, allInst>>
cleanVars   == <<todo, failedVms, cleaned>>
testVars    == <<verdict, intra, phasesLeft>>
historyVars == <<created, registered, destroyed, uploaded>>

workerVars == <<requestVars, pc, cancel, returncode, rc, mem, threadVars,
                cleanVars, testVars, historyVars>>

NothingCreated == [vms |-> {}, isos |-> {}]   \* created_registry at first
NoCode == -1   \* returncode None: the run has not finished

\* The thread is running.
ActivePc == {"init", "phase", "cluster", "create", "register", "seeds", "test",
             "cleanup", "iso", "finish", "mark", "cancelclean", "error", "rc"}
\* "rejected": api_start_run raised after it had inserted the run.
\* "lost": the server process died under the thread.
Pc == ActivePc \cup {"idle", "rejected", "done", "lost"}

Active(r) == pc[r] \in ActivePc

Goto(r, l) == pc' = [pc EXCEPT ![r] = l]

\* Faulty Raise: the handler returns without error_cb.
RaiseSilently(r) ==
  /\ Goto(r, "rc")
  /\ \E c \in ErrorCodes : rc' = [rc EXCEPT ![r] = c]

\* Raising: execute_run's handlers record the error and destroy nothing.
Raise(r) ==
  /\ Goto(r, "error")
  /\ \E c \in ErrorCodes : rc' = [rc EXCEPT ![r] = c]

\* _persist_registry: write the in-memory registry (here its next value) out.
Persist(r) ==
  /\ objrow' = [objrow EXCEPT ![r] =
                  UpsertCreatedObjects(@, mem'[r].vms, mem'[r].isos)]
  /\ registered' = [registered EXCEPT ![r] = @ \cup mem'[r].vms]

Used == Foreign \cup UNION {created[r] : r \in Runs}

\* A clone, an OVF import or CreateVM_Task made a VM with the run's prefix;
\* vCenter never hands out a managed object id twice.
NewVm(r, m) ==
  /\ m \notin Used
  /\ HasPrefix(m, prefix[r])
  /\ inventory' = inventory \cup {m}
  /\ created' = [created EXCEPT ![r] = @ \cup {m}]

-----------------------------------------------------------------------------
\* Starting a run: the row is inserted before the request is looked at, so a
\* request that is then refused leaves a run with no thread.
StartRun(r) ==
  /\ pc[r] = "idle"
  /\ runrow' = [runrow EXCEPT ![r] = "running"]
  /\ \/ /\ Goto(r, "init")
        /\ \E p \in Prefixes : prefix' = [prefix EXCEPT ![r] = p]
     \/ Goto(r, "rejected") /\ UNCHANGED prefix
  /\ UNCHANGED <<threadVars, cleanVars, testVars, historyVars, inventory,
                 datastore, objrow, cfg, cancel, returncode, rc, mem>>

\* api_cancel_run sets the event unless the run has finished.
CancelRun(r) ==
  /\ pc[r] \notin {"idle", "lost"}
  /\ returncode[r] = NoCode
  /\ cancel' = [cancel EXCEPT ![r] = TRUE]
  /\ UNCHANGED <<storeVars, requestVars, threadVars, cleanVars, testVars,
                 historyVars, pc, returncode, rc, mem>>

\* Where a run goes next: to provision, or to the checks when no case needs a VM
\* (as in a run of custom steps, which checks gateways) or the run is a dry one.
ProvisionPcs(r) == IF cfg[r].probe = "in-guest" THEN {"cluster", "test"} ELSE {"test"}

\* _prepare_run_inputs, connecting, probe servers, generate_phased_cases.
Prepare(r) ==
  /\ pc[r] = "init"
  /\ \E l \in IF cfg[r].phased THEN {"phase"} ELSE ProvisionPcs(r) : Goto(r, l)
  /\ phasesLeft' = [phasesLeft EXCEPT ![r] = IF cfg[r].phased THEN MaxPhases ELSE 0]
  /\ UNCHANGED <<storeVars, requestVars, threadVars, cleanVars, historyVars,
                 cancel, returncode, rc, mem, verdict, intra>>

\* Faulty MorePhases: one phase too many.
MorePhasesOffByOne(r) == phasesLeft[r] >= 0

MorePhases(r) == phasesLeft[r] > 0

BeginPhase(r) ==
  /\ pc[r] = "phase" /\ MorePhases(r) /\ ~cancel[r]
  /\ phasesLeft' = [phasesLeft EXCEPT ![r] = @ - 1]
  /\ \E b \in BOOLEAN : intra' = [intra EXCEPT ![r] = b]
  /\ \E l \in ProvisionPcs(r) : Goto(r, l)
  /\ inst' = [inst EXCEPT ![r] = {}]
  /\ UNCHANGED <<storeVars, requestVars, cleanVars, historyVars, cancel,
                 returncode, rc, mem, seeds, fresh, allInst, verdict>>

\* The loop over the phases is over; nothing looks at the cancel event here.
EndPhases(r) ==
  /\ pc[r] = "phase"
  /\ Goto(r, "iso")
  /\ UNCHANGED <<storeVars, requestVars, threadVars, cleanVars, testVars,
                 historyVars, cancel, returncode, rc, mem>>

-----------------------------------------------------------------------------
\* provision_test_vms, OVF: one seed VM per cluster.  Taking its snapshot may
\* fail once the VM exists.
DeploySeed(r, m) ==
  /\ pc[r] = "cluster" /\ cfg[r].boot = "ovf" /\ ~cancel[r]
  /\ NewVm(r, m)
  /\ \/ /\ seeds' = [seeds EXCEPT ![r] = @ \cup {m}]
        /\ \E l \in {"cluster", "create"} : Goto(r, l)
        /\ UNCHANGED rc
     \/ Raise(r) /\ UNCHANGED seeds
  /\ UNCHANGED <<requestVars, cleanVars, testVars, datastore, runrow, objrow,
                 cancel, returncode, mem, fresh, inst, allInst, registered,
                 destroyed, uploaded>>

\* ensure_iso_on_datastore uploads under a fresh name.
UploadIso(r, i) ==
  /\ i \notin PreStaged \cup UNION {uploaded[q] : q \in Runs}
  /\ datastore' = datastore \cup {i}
  /\ uploaded' = [uploaded EXCEPT ![r] = @ \cup {i}]

\* A datastore path that the operator gave is returned as it is.
UsePreStagedIso(i) == i \in PreStaged /\ UNCHANGED <<datastore, uploaded>>

\* Memory boot: either way on_iso_created registers the path.  An upload whose
\* answer does not come in time raises, though the file may be there.
RegisterIso(r, i) ==
  /\ pc[r] = "cluster" /\ cfg[r].boot = "memboot" /\ ~cancel[r]
  /\ \/ /\ UploadIso(r, i) \/ UsePreStagedIso(i)
        /\ mem' = [mem EXCEPT ![r].isos = @ \cup {i}]
        /\ Persist(r)
        /\ \E l \in {"cluster", "create"} : Goto(r, l)
        /\ UNCHANGED rc
     \/ UploadIso(r, i) /\ Raise(r) /\ UNCHANGED <<mem, objrow, registered>>
  /\ UNCHANGED <<requestVars, threadVars, cleanVars, testVars, inventory,
                 runrow, cancel, returncode, created, destroyed>>

\* One VM of the subnet is created and powered on; power-on may fail once the
\* VM exists.
CreateVm(r, m) ==
  /\ pc[r] = "create" /\ ~cancel[r]
  /\ NewVm(r, m)
  /\ \/ fresh' = [fresh EXCEPT ![r] = @ \cup {m}] /\ UNCHANGED <<pc, rc>>
     \/ Raise(r) /\ UNCHANGED fresh
  /\ UNCHANGED <<requestVars, cleanVars, testVars, datastore, runrow, objrow,
                 cancel, returncode, mem, seeds, inst, allInst, registered,
                 destroyed, uploaded>>

\* All VMs of the subnet exist; their probes are collected, which takes minutes
\* and does not look at the cancel event.
ProbeSubnet(r) ==
  /\ pc[r] = "create" /\ fresh[r] # {}
  /\ Goto(r, "register")
  /\ UNCHANGED <<storeVars, requestVars, threadVars, cleanVars, testVars,
                 historyVars, cancel, returncode, rc, mem>>

\* instances.append and on_vm_created, which appends and persists.
Record(r, m) ==
  /\ inst' = [inst EXCEPT ![r] = @ \cup {m}]
  /\ mem' = [mem EXCEPT ![r].vms = @ \cup {m}]
  /\ Persist(r)

RegisterVm(r, m) ==
  /\ pc[r] = "register" /\ m \in fresh[r]
  /\ fresh' = [fresh EXCEPT ![r] = @ \ {m}]
  /\ Record(r, m)
  /\ UNCHANGED <<requestVars, cleanVars, testVars, inventory, datastore,
                 runrow, pc, cancel, returncode, rc, seeds, allInst, created,
                 destroyed, uploaded>>

NextSubnet(r) ==
  /\ pc[r] = "register" /\ fresh[r] = {} /\ ~cancel[r]
  /\ Goto(r, "create")
  /\ UNCHANGED <<storeVars, requestVars, threadVars, cleanVars, testVars,
                 historyVars, cancel, returncode, rc, mem>>

\* The seed VMs are registered last, after every subnet.
RegisterSeed(r, m) ==
  /\ pc[r] \in {"register", "seeds"} /\ fresh[r] = {} /\ m \in seeds[r]
  /\ seeds' = [seeds EXCEPT ![r] = @ \ {m}]
  /\ Record(r, m)
  /\ Goto(r, "seeds")
  /\ UNCHANGED <<requestVars, cleanVars, testVars, inventory, datastore,
                 runrow, cancel, returncode, rc, fresh, allInst, created,
                 destroyed, uploaded>>

\* Faulty AllRecorded: the seed VMs are forgotten.
CopiesRecorded(r) == fresh[r] = {}

\* Every VM of this provisioning call is among the instances.
AllRecorded(r) == fresh[r] = {} /\ seeds[r] = {}

\* provision_test_vms returns and all_vm_instances is extended.
ReturnInstances(r) ==
  /\ pc[r] \in {"register", "seeds"} /\ AllRecorded(r)
  /\ allInst' = [allInst EXCEPT ![r] = @ \cup inst[r]]
  /\ Goto(r, "test")
  /\ UNCHANGED <<storeVars, requestVars, cleanVars, testVars, historyVars,
                 cancel, returncode, rc, mem, seeds, fresh, inst>>

-----------------------------------------------------------------------------
\* cleanup_vms starts over a list; connecting to vCenter may fail, which makes
\* every instance a failed one.
StartCleanup(r, list) ==
  \/ todo' = [todo EXCEPT ![r] = list] /\ failedVms' = [failedVms EXCEPT ![r] = {}]
  \/ todo' = [todo EXCEPT ![r] = {}] /\ failedVms' = [failedVms EXCEPT ![r] = list]

\* run_icmp_checks has the verdict v, PASS for a dry run; the VMs that the
\* checks ran on are destroyed, or it goes on at l.
Judge(r, v, destroys, l) ==
  /\ cfg[r].probe = "dry-run" => v = "PASS"
  /\ verdict' = [verdict EXCEPT ![r] = v]
  /\ cleaned' = [cleaned EXCEPT ![r] = FALSE]
  /\ IF inst[r] # {} /\ destroys
       THEN StartCleanup(r, inst[r]) /\ Goto(r, "cleanup")
       ELSE Goto(r, l) /\ UNCHANGED <<todo, failedVms>>
  /\ UNCHANGED <<storeVars, requestVars, threadVars, historyVars, cancel,
                 returncode, rc, mem, intra, phasesLeft>>

\* A classic run, all its attempts: a failed run keeps its VMs unless
\* cleanup_on_failure.
ClassicChecks(r, v) ==
  /\ pc[r] = "test" /\ ~cfg[r].phased /\ ~cancel[r]
  /\ Judge(r, v, v = "PASS" \/ cfg[r].cleanupOnFailure, "iso")

\* A phase: a failed intra-subnet phase never keeps its VMs, and only a phase
\* that passed is followed by another.  Once a phase of a dry run has begun
\* nothing looks at the cancel event.
PhaseChecks(r, v) ==
  /\ pc[r] = "test" /\ cfg[r].phased
  /\ ~cancel[r] \/ cfg[r].probe = "dry-run"
  /\ Judge(r, v, v = "PASS" \/ cfg[r].cleanupOnFailure \/ intra[r],
           IF v = "PASS" THEN "phase" ELSE "iso")

RunChecks(r, v) == ClassicChecks(r, v) \/ PhaseChecks(r, v)

CleanupPc == {"cleanup", "cancelclean"}

\* _find_vm: the VM itself or, when that is gone, a VM of the same name.  Names
\* hold the run id and are reused by the next phase and by clusters of one name,
\* so the namesake may be any VM of the run.
Found(r, m) == IF m \in inventory THEN {m} ELSE created[r] \cap inventory

Destroy(r, x) ==
  /\ inventory' = inventory \ {x}
  /\ destroyed' = [destroyed EXCEPT ![r] = @ \cup {x}]

\* One instance of the list.  A VM that is not found counts as failed; a task
\* that fails or times out may still have taken the VM with it.
DestroyVm(r, m) ==
  /\ pc[r] \in CleanupPc /\ m \in todo[r]
  /\ todo' = [todo EXCEPT ![r] = @ \ {m}]
  /\ \/ /\ \E x \in Found(r, m) : Destroy(r, x)
        /\ cleaned' = [cleaned EXCEPT ![r] = TRUE]
        /\ UNCHANGED failedVms
     \/ /\ failedVms' = [failedVms EXCEPT ![r] = @ \cup {m}]
        /\ \/ UNCHANGED <<inventory, destroyed>>
           \/ \E x \in Found(r, m) : Destroy(r, x)
        /\ UNCHANGED cleaned
  /\ UNCHANGED <<requestVars, threadVars, testVars, datastore, runrow, objrow,
                 pc, cancel, returncode, rc, mem, created, registered,
                 uploaded>>

\* The session breaks inside the loop (a look-up by name meets a VM that has
\* vanished): cleanup_vms reports nothing cleaned and everything failed,
\* whatever it destroyed before.
CleanupBreaks(r) ==
  /\ pc[r] \in CleanupPc /\ todo[r] # {}
  /\ todo' = [todo EXCEPT ![r] = {}]
  /\ failedVms' = [failedVms EXCEPT ![r] =
                     IF pc[r] = "cleanup" THEN inst[r] ELSE allInst[r]]
  /\ cleaned' = [cleaned EXCEPT ![r] = FALSE]
  /\ UNCHANGED <<storeVars, requestVars, threadVars, testVars, historyVars, pc,
                 cancel, returncode, rc, mem>>

\* Faulty Prunable: once something was cleaned, everything is taken off.
PrunableWithFailed(r) == IF cleaned[r] THEN inst[r] ELSE {}

\* _prune_cleaned_vms_from_registry: the VMs to take off, none when nothing
\* was cleaned.
Prunable(r) == IF cleaned[r] THEN inst[r] \ failedVms[r] ELSE {}

PruneRegistry(r) ==
  /\ pc[r] = "cleanup" /\ todo[r] = {}
  /\ IF mem[r].vms \cap Prunable(r) # {}
       THEN mem' = [mem EXCEPT ![r].vms = @ \ Prunable(r)] /\ Persist(r)
       ELSE UNCHANGED <<mem, objrow, registered>>
  /\ Goto(r, IF cfg[r].phased /\ verdict[r] = "PASS" THEN "phase" ELSE "iso")
  /\ UNCHANGED <<requestVars, threadVars, cleanVars, testVars, inventory,
                 datastore, runrow, cancel, returncode, rc, created, destroyed,
                 uploaded>>

\* _cleanup_uploaded_isos: kept after a failure without cleanup_on_failure, or
\* when vCenter is out of reach; a delete that fails keeps its entry.
CleanIsos(r) ==
  /\ pc[r] = "iso"
  /\ Goto(r, "finish")
  /\ \/ UNCHANGED <<datastore, mem, objrow, registered>>
     \/ /\ mem[r].isos # {}
        /\ verdict[r] = "PASS" \/ cfg[r].cleanupOnFailure
        /\ \E kept \in SUBSET mem[r].isos :
             /\ DeleteIsos(mem[r].isos, kept)
             /\ mem' = [mem EXCEPT ![r].isos = kept]
        /\ Persist(r)
  /\ UNCHANGED <<requestVars, threadVars, cleanVars, testVars, inventory,
                 runrow, cancel, returncode, rc, created, destroyed, uploaded>>

-----------------------------------------------------------------------------
\* The result is final: the return code is that of the tests, but a run with a
\* UDP rule is then rewritten to FAIL before it is stored.
FinalStatus(r) == IF cfg[r].udp THEN "FAIL" ELSE verdict[r]

\* finish_run; its second transaction (mark_cleaned, dry runs only) follows.
FinishRun(r) ==
  /\ pc[r] = "finish"
  /\ runrow' = [runrow EXCEPT ![r] = FinalStatus(r)]
  /\ rc' = [rc EXCEPT ![r] = IF verdict[r] = "PASS" THEN 0 ELSE 1]
  /\ Goto(r, IF cfg[r].probe = "dry-run" THEN "mark" ELSE "rc")
  /\ UNCHANGED <<requestVars, threadVars, cleanVars, testVars, historyVars,
                 inventory, datastore, objrow, cancel, returncode, mem>>

MarkRunCleaned(r) ==
  /\ pc[r] = "mark"
  /\ objrow' = [objrow EXCEPT ![r] = MarkCleaned(@)]
  /\ Goto(r, "rc")
  /\ UNCHANGED <<requestVars, threadVars, cleanVars, testVars, historyVars,
                 inventory, datastore, runrow, cancel, returncode, rc, mem>>

\* A check_cancel raises RunCancelledError.  The VMs of the provisioning calls
\* that returned are destroyed if cleanup_on_failure; the registry is not
\* pruned and ISOs stay.
CancelPc == {"phase", "cluster", "create", "register", "test"}

\* Faulty CancelDestroys: cleanup_vms is not told that this is a failure.
CancelDestroysAlways(r) == allInst[r] # {}

CancelDestroys(r) == allInst[r] # {} /\ cfg[r].cleanupOnFailure

CancelNoticed(r) ==
  /\ pc[r] \in CancelPc /\ cancel[r]
  /\ ~(pc[r] = "test" /\ cfg[r].phased /\ cfg[r].probe = "dry-run")
  /\ pc[r] = "register" => fresh[r] = {}
  /\ pc[r] = "phase" => MorePhases(r)
  /\ rc' = [rc EXCEPT ![r] = 5]
  /\ cleaned' = [cleaned EXCEPT ![r] = FALSE]
  /\ IF CancelDestroys(r)
       THEN StartCleanup(r, allInst[r]) /\ Goto(r, "cancelclean")
       ELSE Goto(r, "error") /\ UNCHANGED <<todo, failedVms>>
  /\ UNCHANGED <<storeVars, requestVars, threadVars, testVars, historyVars,
                 cancel, returncode, mem>>

CancelCleanupDone(r) ==
  /\ pc[r] = "cancelclean" /\ todo[r] = {}
  /\ Goto(r, "error")
  /\ UNCHANGED <<storeVars, requestVars, threadVars, cleanVars, testVars,
                 historyVars, cancel, returncode, rc, mem>>

\* A vCenter call on the way raises, or the check that some case was selected.
RaisePc == {"init", "phase", "cluster", "create", "seeds", "test", "finish"}

WorkerRaises(r) ==
  /\ pc[r] \in RaisePc
  /\ Raise(r)
  /\ UNCHANGED <<storeVars, requestVars, threadVars, cleanVars, testVars,
                 historyVars, cancel, returncode, mem>>

\* error_cb: finish_run_error.
RecordError(r) ==
  /\ pc[r] = "error"
  /\ runrow' = [runrow EXCEPT ![r] = "error"]
  /\ Goto(r, "rc")
  /\ UNCHANGED <<requestVars, threadVars, cleanVars, testVars, historyVars,
                 inventory, datastore, objrow, cancel, returncode, rc, mem>>

\* The threads of the runs R end and take their locals with them (inst and intra
\* stay to tell what the last checks ran on).
EndThreads(R) ==
  LET Cleared(f, v) == [r \in Runs |-> IF r \in R THEN v ELSE f[r]]
  IN  /\ rc' = Cleared(rc, 4)
      /\ mem' = Cleared(mem, NothingCreated)
      /\ seeds' = Cleared(seeds, {}) /\ fresh' = Cleared(fresh, {})
      /\ allInst' = Cleared(allInst, {})
      /\ todo' = Cleared(todo, {}) /\ failedVms' = Cleared(failedVms, {})
      /\ cleaned' = Cleared(cleaned, FALSE)
      /\ verdict' = Cleared(verdict, "PASS")
      /\ phasesLeft' = Cleared(phasesLeft, 0)
      /\ UNCHANGED <<inst, intra>>

\* The worker's finally clause.
PublishReturncode(r) ==
  /\ pc[r] = "rc"
  /\ returncode' = [returncode EXCEPT ![r] = rc[r]]
  /\ Goto(r, "done")
  /\ EndThreads({r})
  /\ UNCHANGED <<storeVars, requestVars, historyVars, cancel>>

-----------------------------------------------------------------------------
\* One step of the thread of run r.
WorkerStep(r) ==
  \/ Prepare(r) \/ BeginPhase(r) \/ EndPhases(r)
  \/ \E m \in Vms : DeploySeed(r, m) \/ CreateVm(r, m)
  \/ \E i \in Isos : RegisterIso(r, i)
  \/ ProbeSubnet(r)
  \/ \E m \in fresh[r] : RegisterVm(r, m)
  \/ \E m \in seeds[r] : RegisterSeed(r, m)
  \/ NextSubnet(r) \/ ReturnInstances(r)
  \/ \E v \in {"PASS", "FAIL"} : RunChecks(r, v)
  \/ \E m \in todo[r] : DestroyVm(r, m)
  \/ CleanupBreaks(r) \/ PruneRegistry(r) \/ CleanIsos(r)
  \/ FinishRun(r) \/ MarkRunCleaned(r)
  \/ CancelNoticed(r) \/ CancelCleanupDone(r)
  \/ WorkerRaises(r) \/ RecordError(r) \/ PublishReturncode(r)

WorkerInit ==
  /\ cfg \in [Runs -> Configs]
  /\ pc = [r \in Runs |-> "idle"]
  /\ prefix = [r \in Runs |-> CHOOSE p \in Prefixes : TRUE]
  /\ cancel = [r \in Runs |-> FALSE]
  /\ returncode = [r \in Runs |-> NoCode]
  /\ rc = [r \in Runs |-> 4]
  /\ mem = [r \in Runs |-> NothingCreated]
  /\ seeds = [r \in Runs |-> {}]
  /\ fresh = [r \in Runs |-> {}]
  /\ inst = [r \in Runs |-> {}]
  /\ allInst = [r \in Runs |-> {}]
  /\ todo = [r \in Runs |-> {}]
  /\ failedVms = [r \in Runs |-> {}]
  /\ cleaned = [r \in Runs |-> FALSE]
  /\ verdict = [r \in Runs |-> "PASS"]
  /\ intra = [r \in Runs |-> FALSE]
  /\ phasesLeft = [r \in Runs |-> 0]
  /\ created = [r \in Runs |-> {}]
  /\ registered = [r \in Runs |-> {}]
  /\ destroyed = [r \in Runs |-> {}]
  /\ uploaded = [r \in Runs |-> {}]

WorkerTypeOK ==
  /\ cfg \in [Runs -> Configs]
  /\ pc \in [Runs -> Pc]
  /\ prefix \in [Runs -> Prefixes]
  /\ cancel \in [Runs -> BOOLEAN]
  /\ returncode \in [Runs -> {NoCode} \cup (0..5)]
  /\ rc \in [Runs -> 0..5]
  /\ mem \in [Runs -> Registry]
  /\ seeds \in [Runs -> SUBSET Vms] /\ fresh \in [Runs -> SUBSET Vms]
  /\ inst \in [Runs -> SUBSET Vms] /\ allInst \in [Runs -> SUBSET Vms]
  /\ todo \in [Runs -> SUBSET Vms] /\ failedVms \in [Runs -> SUBSET Vms]
  /\ created \in [Runs -> SUBSET Vms] /\ registered \in [Runs -> SUBSET Vms]
  /\ destroyed \in [Runs -> SUBSET Vms]
  /\ cleaned \in [Runs -> BOOLEAN] /\ intra \in [Runs -> BOOLEAN]
  /\ uploaded \in [Runs -> SUBSET Isos]
  /\ verdict \in [Runs -> {"PASS", "FAIL"}]
  /\ phasesLeft \in [Runs -> 0..MaxPhases]
=============================================================================
