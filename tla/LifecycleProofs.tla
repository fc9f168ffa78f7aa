--------------------------- MODULE LifecycleProofs --------------------------
(***************************************************************************)
(* What a worker's own bookkeeping guarantees, whatever requests come at   *)
(* whatever time and however often the server restarts:                    *)
(*  - every variable keeps its type (TypeOK);                              *)
(*  - the in-memory registry of a running worker lists every registered VM *)
(*    that is alive (MemoryCoversLive);                                    *)
(*  - a run that stored a test result has registered every VM it created   *)
(*    (ReportedRunRegisteredAll);                                          *)
(*  - the stored status and the published return code agree, but for UDP   *)
(*    rules (OutcomesAgree);                                               *)
(*  - a failed or cancelled run that is to keep its VMs has destroyed none *)
(*    that its last checks ran on (RetainedForTroubleshooting).            *)
(* What the workers and the clean-up endpoints guarantee together:         *)
(*  - as long as operators are careful (Quiesced), every registered VM     *)
(*    that is alive is in its run's row (RegistryCoversLive), with any     *)
(*    number of runs, of handlers at work at the same time, of changes of  *)
(*    the prefix and of restarts;                                          *)
(*  - VMs of other people survive, careful operators or not                *)
(*    (ForeignVmsSurvive);                                                 *)
(*  - with careful operators, a run shown as cleaned up has no registered  *)
(*    VM left (ShownCleanMeansGone), and a clean-up request that answers   *)
(*    "cleanup" left nothing of what the row lists (CleanupAnswerIsTrue).  *)
(***************************************************************************)
EXTENDS RunLifecycle, TLAPS

-----------------------------------------------------------------------------
(***************************************************************************)
(* TypeOK is an invariant of RunLifecycle, for every choice of the         *)
(* constants.  It is inductive: a lemma for the helpers of the worker, one *)
(* for a step of a worker, the same for the handlers, and then the step of *)
(* the whole system.                                                       *)
(***************************************************************************)


\* The empty tables and the idle threads have their types.
LEMMA TypeInit == Init => TypeOK
<1> SUFFICES ASSUME Init PROVE TypeOK
  OBVIOUS
<1>1. StoreTypeOK
  BY ObjectsAssumption DEF Init, StoreInit, StoreTypeOK, NoRow, ObjectRow, CleanupState,
     RunStatus
<1>2. WorkerTypeOK
  BY ObjectsAssumption, WorkerAssumption
  DEF Init, WorkerInit, WorkerTypeOK, Pc, ActivePc, NoCode, NothingCreated, Registry
<1>3. ApiTypeOK
  BY ObjectsAssumption
  DEF Init, ApiInit, ApiTypeOK, NoRequest, NewRequest, Request, RequestPc, CleanupState
<1> QED  BY <1>1, <1>2, <1>3 DEF TypeOK

\* Writing a well-typed registry out leaves a well-typed row.
LEMMA PersistTyped ==
  ASSUME NEW r \in Runs, objrow \in [Runs -> ObjectRow],
         registered \in [Runs -> SUBSET Vms], mem' \in [Runs -> Registry],
         Persist(r)
  PROVE  objrow' \in [Runs -> ObjectRow] /\ registered' \in [Runs -> SUBSET Vms]
<1>1. mem'[r].vms \in SUBSET Vms /\ mem'[r].isos \in SUBSET Isos
  BY DEF Registry
<1>2. UpsertCreatedObjects(objrow[r], mem'[r].vms, mem'[r].isos) \in ObjectRow
  BY <1>1 DEF UpsertCreatedObjects, ObjectRow
<1> QED  BY <1>1, <1>2 DEF Persist

\* A thread that ends leaves well-typed locals behind.
LEMMA EndThreadsTyped ==
  ASSUME NEW R \in SUBSET Runs, WorkerTypeOK, EndThreads(R)
  PROVE  /\ rc' \in [Runs -> 0..5] /\ mem' \in [Runs -> Registry]
         /\ seeds' \in [Runs -> SUBSET Vms] /\ fresh' \in [Runs -> SUBSET Vms]
         /\ inst' \in [Runs -> SUBSET Vms] /\ allInst' \in [Runs -> SUBSET Vms]
         /\ todo' \in [Runs -> SUBSET Vms] /\ failedVms' \in [Runs -> SUBSET Vms]
         /\ cleaned' \in [Runs -> BOOLEAN] /\ intra' \in [Runs -> BOOLEAN]
         /\ verdict' \in [Runs -> {"PASS", "FAIL"}]
         /\ phasesLeft' \in [Runs -> 0..MaxPhases]
<1>1. rc' \in [Runs -> 0..5]
  BY DEF WorkerTypeOK, EndThreads
<1>2. mem' \in [Runs -> Registry]
  BY DEF NothingCreated, Registry, WorkerTypeOK, EndThreads
<1>3. seeds' \in [Runs -> SUBSET Vms] /\ fresh' \in [Runs -> SUBSET Vms]
  BY DEF WorkerTypeOK, EndThreads
<1>4. allInst' \in [Runs -> SUBSET Vms] /\ inst' \in [Runs -> SUBSET Vms]
  BY DEF WorkerTypeOK, EndThreads
<1>5. todo' \in [Runs -> SUBSET Vms] /\ failedVms' \in [Runs -> SUBSET Vms]
  BY DEF WorkerTypeOK, EndThreads
<1>6. cleaned' \in [Runs -> BOOLEAN] /\ intra' \in [Runs -> BOOLEAN]
  BY DEF WorkerTypeOK, EndThreads
<1>7. verdict' \in [Runs -> {"PASS", "FAIL"}]
  BY DEF WorkerTypeOK, EndThreads
<1>8. phasesLeft' \in [Runs -> 0..MaxPhases]
  BY WorkerAssumption DEF WorkerTypeOK, EndThreads
<1> QED  BY <1>1, <1>2, <1>3, <1>4, <1>5, <1>6, <1>7, <1>8

\* Setting the clean-up state leaves a well-typed row.
LEMMA StatusTyped ==
  ASSUME NEW row \in ObjectRow, NEW s \in CleanupState, NEW c \in BOOLEAN
  PROVE  SetCleanupStatus(row, s, c) \in ObjectRow
BY DEF SetCleanupStatus, ObjectRow

\* Replacing one list of an in-memory registry.
LEMMA RegistryUpdate ==
  ASSUME NEW f \in [Runs -> Registry], NEW r \in Runs
  PROVE  /\ \A S \in SUBSET Vms : [f EXCEPT ![r].vms = S] \in [Runs -> Registry]
         /\ \A S \in SUBSET Isos : [f EXCEPT ![r].isos = S] \in [Runs -> Registry]
<1>1. ASSUME NEW S \in SUBSET Vms PROVE [f EXCEPT ![r].vms = S] \in [Runs -> Registry]
  <2>1. [f[r] EXCEPT !.vms = S] \in Registry
    BY DEF Registry
  <2> QED  BY <2>1
<1>2. ASSUME NEW S \in SUBSET Isos PROVE [f EXCEPT ![r].isos = S] \in [Runs -> Registry]
  <2>1. [f[r] EXCEPT !.isos = S] \in Registry
    BY DEF Registry
  <2> QED  BY <2>1
<1> QED  BY <1>1, <1>2

\* The data a worker's operators read and write about its objects.
ObjectsTyped ==
  /\ inventory \subseteq Vms /\ datastore \subseteq Isos
  /\ objrow \in [Runs -> ObjectRow] /\ mem \in [Runs -> Registry]
  /\ inst \in [Runs -> SUBSET Vms] /\ allInst \in [Runs -> SUBSET Vms]
  /\ todo \in [Runs -> SUBSET Vms] /\ failedVms \in [Runs -> SUBSET Vms]
  /\ cleaned \in [Runs -> BOOLEAN]
  /\ created \in [Runs -> SUBSET Vms] /\ registered \in [Runs -> SUBSET Vms]
  /\ destroyed \in [Runs -> SUBSET Vms]

\* Entering an ISO file in the in-memory registry and the row.
LEMMA RegisterIsoTyped ==
  ASSUME NEW r \in Runs, NEW i \in Isos, ObjectsTyped, RegisterIso(r, i)
  PROVE  /\ mem' \in [Runs -> Registry]
         /\ objrow' \in [Runs -> ObjectRow] /\ registered' \in [Runs -> SUBSET Vms]
<1>1. CASE UNCHANGED <<mem, objrow, registered>>
  BY <1>1 DEF ObjectsTyped
<1>2. CASE mem' = [mem EXCEPT ![r].isos = @ \cup {i}] /\ Persist(r)
  <2>1. mem[r].isos \cup {i} \in SUBSET Isos
    BY DEF ObjectsTyped, Registry
  <2>2. mem' \in [Runs -> Registry]
    BY <1>2, <2>1, RegistryUpdate DEF ObjectsTyped
  <2> QED  BY <1>2, <2>2, PersistTyped DEF ObjectsTyped
<1> QED  BY <1>1, <1>2 DEF RegisterIso

\* Entering a VM in the instances, the in-memory registry and the row.
LEMMA RecordTyped ==
  ASSUME NEW r \in Runs, NEW m \in Vms, ObjectsTyped, Record(r, m)
  PROVE  /\ mem' \in [Runs -> Registry] /\ inst' \in [Runs -> SUBSET Vms]
         /\ objrow' \in [Runs -> ObjectRow] /\ registered' \in [Runs -> SUBSET Vms]
<1>1. mem[r].vms \cup {m} \in SUBSET Vms
  BY DEF ObjectsTyped, Registry
<1>2. mem' = [mem EXCEPT ![r].vms = mem[r].vms \cup {m}]
  BY DEF Record
<1>3. mem' \in [Runs -> Registry]
  BY <1>1, <1>2, RegistryUpdate DEF ObjectsTyped
<1>4. inst' \in [Runs -> SUBSET Vms]
  BY DEF Record, ObjectsTyped
<1> QED  BY <1>3, <1>4, PersistTyped DEF Record, ObjectsTyped

\* Taking destroyed VMs off the registry.
LEMMA PruneTyped ==
  ASSUME NEW r \in Runs, ObjectsTyped, PruneRegistry(r)
  PROVE  /\ mem' \in [Runs -> Registry]
         /\ objrow' \in [Runs -> ObjectRow] /\ registered' \in [Runs -> SUBSET Vms]
<1>1. CASE UNCHANGED <<mem, objrow, registered>>
  BY <1>1 DEF ObjectsTyped
<1>2. CASE mem' = [mem EXCEPT ![r].vms = @ \ Prunable(r)] /\ Persist(r)
  <2>1. mem[r].vms \ Prunable(r) \in SUBSET Vms
    BY DEF ObjectsTyped, Registry
  <2>2. mem' \in [Runs -> Registry]
    BY <1>2, <2>1, RegistryUpdate DEF ObjectsTyped
  <2> QED  BY <1>2, <2>2, PersistTyped DEF ObjectsTyped
<1> QED  BY <1>1, <1>2 DEF PruneRegistry

\* Deleting ISO files and taking them off the registry.
LEMMA CleanIsosTyped ==
  ASSUME NEW r \in Runs, ObjectsTyped, CleanIsos(r)
  PROVE  /\ mem' \in [Runs -> Registry] /\ datastore' \subseteq Isos
         /\ objrow' \in [Runs -> ObjectRow] /\ registered' \in [Runs -> SUBSET Vms]
<1>1. CASE UNCHANGED <<datastore, mem, objrow, registered>>
  BY <1>1 DEF ObjectsTyped
<1>2. ASSUME NEW kept \in SUBSET mem[r].isos, DeleteIsos(mem[r].isos, kept),
             mem' = [mem EXCEPT ![r].isos = kept], Persist(r)
      PROVE  /\ mem' \in [Runs -> Registry] /\ datastore' \subseteq Isos
             /\ objrow' \in [Runs -> ObjectRow] /\ registered' \in [Runs -> SUBSET Vms]
  <2>1. kept \in SUBSET Isos
    BY DEF ObjectsTyped, Registry
  <2>2. mem' \in [Runs -> Registry]
    BY <1>2, <2>1, RegistryUpdate DEF ObjectsTyped
  <2>3. datastore' \subseteq Isos
    BY <1>2 DEF DeleteIsos, ObjectsTyped
  <2> QED  BY <1>2, <2>2, <2>3, PersistTyped DEF ObjectsTyped
<1> QED  BY <1>1, <1>2 DEF CleanIsos

\* Destroying one instance, or a namesake of it.
LEMMA DestroyTyped ==
  ASSUME NEW r \in Runs, NEW m \in Vms, ObjectsTyped, DestroyVm(r, m)
  PROVE  /\ inventory' \subseteq Vms /\ destroyed' \in [Runs -> SUBSET Vms]
         /\ cleaned' \in [Runs -> BOOLEAN] /\ failedVms' \in [Runs -> SUBSET Vms]
<1>1. Found(r, m) \subseteq Vms
  BY DEF Found, ObjectsTyped
<1>2. inventory' \subseteq Vms /\ destroyed' \in [Runs -> SUBSET Vms]
  BY <1>1 DEF DestroyVm, Destroy, ObjectsTyped
<1>3. cleaned' \in [Runs -> BOOLEAN]
  BY DEF DestroyVm, ObjectsTyped
<1>4. failedVms' \in [Runs -> SUBSET Vms]
  BY DEF DestroyVm, ObjectsTyped
<1> QED  BY <1>2, <1>3, <1>4

\* The lists cleanup_vms starts with.
LEMMA StartCleanupTyped ==
  ASSUME NEW r \in Runs, ObjectsTyped,
         \/ StartCleanup(r, inst[r])
         \/ StartCleanup(r, allInst[r])
         \/ UNCHANGED <<todo, failedVms>>
  PROVE  todo' \in [Runs -> SUBSET Vms] /\ failedVms' \in [Runs -> SUBSET Vms]
BY DEF ObjectsTyped, StartCleanup

\* A step of a worker keeps the types of the store and of the workers.
LEMMA WorkerTyped ==
  ASSUME NEW r \in Runs, StoreTypeOK, WorkerTypeOK, WorkerStep(r)
  PROVE  StoreTypeOK' /\ WorkerTypeOK'
<1>0. ObjectsTyped
  BY DEF ObjectsTyped, StoreTypeOK, WorkerTypeOK
<1> USE <1>0, WorkerAssumption
    DEF StoreTypeOK, WorkerTypeOK, storeVars, requestVars, threadVars, cleanVars,
        testVars, historyVars, Goto, Pc, ActivePc
<1>1. ASSUME Prepare(r)
       PROVE  StoreTypeOK' /\ WorkerTypeOK'
  BY <1>1 DEF Prepare, ProvisionPcs
<1>2. ASSUME BeginPhase(r)
       PROVE  StoreTypeOK' /\ WorkerTypeOK'
  BY <1>2 DEF BeginPhase, MorePhases, ProvisionPcs
<1>3. ASSUME EndPhases(r)
       PROVE  StoreTypeOK' /\ WorkerTypeOK'
  BY <1>3 DEF EndPhases
<1>4. ASSUME NEW m \in Vms, DeploySeed(r, m)
       PROVE  StoreTypeOK' /\ WorkerTypeOK'
  <2>1. inventory' \subseteq Vms /\ created' \in [Runs -> SUBSET Vms]
    BY <1>4 DEF DeploySeed, NewVm
  <2>2. seeds' \in [Runs -> SUBSET Vms]
    BY <1>4 DEF DeploySeed
  <2>3. pc' \in [Runs -> Pc] /\ rc' \in [Runs -> 0..5]
    BY <1>4 DEF DeploySeed, Raise
  <2> QED  BY <1>4, <2>1, <2>2, <2>3 DEF DeploySeed
<1>5. ASSUME NEW m \in Vms, CreateVm(r, m)
       PROVE  StoreTypeOK' /\ WorkerTypeOK'
  <2>1. inventory' \subseteq Vms /\ created' \in [Runs -> SUBSET Vms]
    BY <1>5 DEF CreateVm, NewVm
  <2>2. fresh' \in [Runs -> SUBSET Vms]
    BY <1>5 DEF CreateVm
  <2>3. pc' \in [Runs -> Pc] /\ rc' \in [Runs -> 0..5]
    BY <1>5 DEF CreateVm, Raise
  <2> QED  BY <1>5, <2>1, <2>2, <2>3 DEF CreateVm
<1>6. ASSUME NEW i \in Isos, RegisterIso(r, i)
       PROVE  StoreTypeOK' /\ WorkerTypeOK'
  <2>1. /\ mem' \in [Runs -> Registry]
        /\ objrow' \in [Runs -> ObjectRow] /\ registered' \in [Runs -> SUBSET Vms]
    BY <1>6, RegisterIsoTyped
  <2> QED  BY <1>6, <2>1 DEF RegisterIso, UploadIso, UsePreStagedIso, Raise
<1>7. ASSUME ProbeSubnet(r)
       PROVE  StoreTypeOK' /\ WorkerTypeOK'
  BY <1>7 DEF ProbeSubnet
<1>8. ASSUME NEW m \in fresh[r], RegisterVm(r, m)
       PROVE  StoreTypeOK' /\ WorkerTypeOK'
  <2>1. m \in Vms /\ Record(r, m)
    BY <1>8 DEF RegisterVm
  <2>2. /\ mem' \in [Runs -> Registry] /\ inst' \in [Runs -> SUBSET Vms]
        /\ objrow' \in [Runs -> ObjectRow] /\ registered' \in [Runs -> SUBSET Vms]
    BY <2>1, RecordTyped
  <2> QED  BY <1>8, <2>1, <2>2 DEF RegisterVm
<1>9. ASSUME NEW m \in seeds[r], RegisterSeed(r, m)
       PROVE  StoreTypeOK' /\ WorkerTypeOK'
  <2>1. m \in Vms /\ Record(r, m)
    BY <1>9 DEF RegisterSeed
  <2>2. /\ mem' \in [Runs -> Registry] /\ inst' \in [Runs -> SUBSET Vms]
        /\ objrow' \in [Runs -> ObjectRow] /\ registered' \in [Runs -> SUBSET Vms]
    BY <2>1, RecordTyped
  <2> QED  BY <1>9, <2>1, <2>2 DEF RegisterSeed
<1>10. ASSUME NextSubnet(r)
       PROVE  StoreTypeOK' /\ WorkerTypeOK'
  BY <1>10 DEF NextSubnet
<1>11. ASSUME ReturnInstances(r)
       PROVE  StoreTypeOK' /\ WorkerTypeOK'
  BY <1>11 DEF ReturnInstances
<1>12. ASSUME NEW v \in {"PASS", "FAIL"}, RunChecks(r, v)
       PROVE  StoreTypeOK' /\ WorkerTypeOK'
  <2>1. PICK destroys \in BOOLEAN, l \in {"iso", "phase"} : Judge(r, v, destroys, l)
    <3>1. CASE ClassicChecks(r, v)
      BY <3>1 DEF ClassicChecks
    <3>2. CASE PhaseChecks(r, v)
      BY <3>2 DEF PhaseChecks
    <3> QED  BY <1>12, <3>1, <3>2 DEF RunChecks
  <2>2. todo' \in [Runs -> SUBSET Vms] /\ failedVms' \in [Runs -> SUBSET Vms]
    BY <2>1, StartCleanupTyped DEF Judge
  <2>3. /\ pc' \in [Runs -> Pc] /\ cleaned' \in [Runs -> BOOLEAN]
        /\ verdict' \in [Runs -> {"PASS", "FAIL"}]
    BY <2>1 DEF Judge
  <2> QED  BY <2>1, <2>2, <2>3 DEF Judge
<1>13. ASSUME NEW m \in todo[r], DestroyVm(r, m)
       PROVE  StoreTypeOK' /\ WorkerTypeOK'
  <2>1. m \in Vms
    BY <1>13
  <2>2. /\ inventory' \subseteq Vms /\ destroyed' \in [Runs -> SUBSET Vms]
        /\ cleaned' \in [Runs -> BOOLEAN] /\ failedVms' \in [Runs -> SUBSET Vms]
    BY <1>13, <2>1, DestroyTyped
  <2> QED  BY <1>13, <2>2 DEF DestroyVm
<1>14. ASSUME CleanupBreaks(r)
       PROVE  StoreTypeOK' /\ WorkerTypeOK'
  BY <1>14 DEF CleanupBreaks
<1>15. ASSUME PruneRegistry(r)
       PROVE  StoreTypeOK' /\ WorkerTypeOK'
  <2>1. /\ mem' \in [Runs -> Registry]
        /\ objrow' \in [Runs -> ObjectRow] /\ registered' \in [Runs -> SUBSET Vms]
    BY <1>15, PruneTyped
  <2> QED  BY <1>15, <2>1 DEF PruneRegistry
<1>16. ASSUME CleanIsos(r)
       PROVE  StoreTypeOK' /\ WorkerTypeOK'
  <2>1. /\ mem' \in [Runs -> Registry] /\ datastore' \subseteq Isos
        /\ objrow' \in [Runs -> ObjectRow] /\ registered' \in [Runs -> SUBSET Vms]
    BY <1>16, CleanIsosTyped
  <2> QED  BY <1>16, <2>1 DEF CleanIsos
<1>17. ASSUME FinishRun(r)
       PROVE  StoreTypeOK' /\ WorkerTypeOK'
  BY <1>17 DEF FinishRun, FinalStatus, RunStatus
<1>18. ASSUME MarkRunCleaned(r)
       PROVE  StoreTypeOK' /\ WorkerTypeOK'
  <2>1. MarkCleaned(objrow[r]) \in ObjectRow
    BY StatusTyped DEF MarkCleaned, CleanupState
  <2> QED  BY <1>18, <2>1 DEF MarkRunCleaned
<1>19. ASSUME CancelNoticed(r)
       PROVE  StoreTypeOK' /\ WorkerTypeOK'
  <2>1. todo' \in [Runs -> SUBSET Vms] /\ failedVms' \in [Runs -> SUBSET Vms]
    BY <1>19, StartCleanupTyped DEF CancelNoticed
  <2>2. rc' \in [Runs -> 0..5] /\ cleaned' \in [Runs -> BOOLEAN] /\ pc' \in [Runs -> Pc]
    BY <1>19 DEF CancelNoticed
  <2> QED  BY <1>19, <2>1, <2>2 DEF CancelNoticed
<1>20. ASSUME CancelCleanupDone(r)
       PROVE  StoreTypeOK' /\ WorkerTypeOK'
  BY <1>20 DEF CancelCleanupDone
<1>21. ASSUME WorkerRaises(r)
       PROVE  StoreTypeOK' /\ WorkerTypeOK'
  BY <1>21 DEF WorkerRaises, Raise
<1>22. ASSUME RecordError(r)
       PROVE  StoreTypeOK' /\ WorkerTypeOK'
  BY <1>22 DEF RecordError, RunStatus
<1>23. ASSUME PublishReturncode(r)
       PROVE  StoreTypeOK' /\ WorkerTypeOK'
  <2>1. returncode' \in [Runs -> {NoCode} \cup (0..5)] /\ EndThreads({r})
    BY <1>23 DEF PublishReturncode
  <2> QED  BY <1>23, <2>1, EndThreadsTyped DEF PublishReturncode
<1> QED
  <2> HIDE <1>0, WorkerAssumption DEF StoreTypeOK, WorkerTypeOK
  <2> QED
    BY <1>1, <1>2, <1>3, <1>4, <1>5, <1>6, <1>7, <1>8, <1>9, <1>10, <1>11, <1>12, 
     <1>13, <1>14, <1>15, <1>16, <1>17, <1>18, <1>19, <1>20, <1>21, <1>22, <1>23
    DEF WorkerStep

\* A handler that goes on with well-typed locals.
LEMMA ContinueTyped ==
  ASSUME NEW h \in Handlers, NEW q \in Request, ApiTypeOK, Continue(h, q)
  PROVE  ApiTypeOK'
BY DEF ApiTypeOK, Continue

\* The locals a handler starts with.
LEMMA NewRequestTyped ==
  ASSUME NEW l \in RequestPc, NEW r \in Runs, NEW p \in Prefixes
  PROVE  NewRequest(l, r, p) \in Request
BY DEF NewRequest, Request

\* The locals a handler leaves when it has answered.
LEMMA ReplyTyped ==
  ASSUME NEW h \in Handlers, NEW s \in CleanupState \cup {"none"}, ApiTypeOK,
         Reply(h, s)
  PROVE  ApiTypeOK'
<1>1. NoRequest \in Request
  BY NewRequestTyped, ObjectsAssumption DEF NoRequest, RequestPc
<1>2. [NoRequest EXCEPT !.reply = s] \in Request
  BY <1>1 DEF Request
<1> QED  BY <1>2, ContinueTyped DEF Reply

\* Replacing the lists of a row.
LEMMA UpsertTyped ==
  ASSUME NEW row \in ObjectRow, NEW S \in SUBSET Vms, NEW I \in SUBSET Isos
  PROVE  UpsertCreatedObjects(row, S, I) \in ObjectRow
BY DEF UpsertCreatedObjects, ObjectRow

\* Writing the clean-up state of a run.
LEMMA WriteStatusTyped ==
  ASSUME NEW r \in Runs, NEW s \in CleanupState, objrow \in [Runs -> ObjectRow],
         WriteStatus(r, s)
  PROVE  objrow' \in [Runs -> ObjectRow]
<1>1. SetCleanupStatus(objrow[r], s, s = "cleanup") \in ObjectRow
  BY StatusTyped
<1> QED  BY <1>1 DEF WriteStatus

\* A step of a handler keeps the types of the store and of the requests.
LEMMA HandlerTyped ==
  ASSUME NEW h \in Handlers, StoreTypeOK, ApiTypeOK, HandlerStep(h)
  PROVE  StoreTypeOK' /\ ApiTypeOK'
<1>0. request[h] \in Request /\ request[h].todo \in SUBSET Vms
  BY DEF ApiTypeOK, Request
<1>1. ASSUME NothingToClean(h)
       PROVE  StoreTypeOK' /\ ApiTypeOK'
  <2>1. "cleanup" \in CleanupState
    BY DEF DerivedState, DeriveCleanupState, CleanupState
  <2>2. WriteStatus(request[h].run, "cleanup") /\ Reply(h, "cleanup") /\ UNCHANGED <<inventory, datastore, runrow>>
    BY <1>1 DEF NothingToClean
  <2>3. StoreTypeOK'
    BY <2>1, <2>2, <1>0, WriteStatusTyped DEF StoreTypeOK, Request
  <2> QED  BY <2>1, <2>2, <2>3, ReplyTyped
<1>2. ASSUME ListVms(h)
       PROVE  StoreTypeOK' /\ ApiTypeOK'
  <2> DEFINE q == [request[h] EXCEPT !.pc = "delete", !.seen = inventory, !.todo = request[h].vms]
  <2>1. q \in Request
    BY <1>0 DEF Request, RequestPc, StoreTypeOK
  <2>2. Continue(h, q) \/ Reply(h, "none")
    BY <1>2 DEF ListVms, Abort
  <2>3. StoreTypeOK'
    BY <1>2 DEF ListVms, StoreTypeOK, storeVars
  <2> HIDE DEF q
  <2> QED  BY <2>1, <2>2, <2>3, ContinueTyped, ReplyTyped
<1>3. ASSUME NEW m \in Vms, SkipVm(h, m)
       PROVE  StoreTypeOK' /\ ApiTypeOK'
  <2> DEFINE q == [request[h] EXCEPT !.todo = @ \ {m}, !.progress = TRUE]
  <2>1. q \in Request
    BY <1>0 DEF Request, RequestPc
  <2>2. Continue(h, q)
    BY <1>3 DEF SkipVm
  <2>3. StoreTypeOK'
    BY <1>3 DEF SkipVm, StoreTypeOK, storeVars
  <2> HIDE DEF q
  <2> QED  BY <2>1, <2>2, <2>3, ContinueTyped
<1>4. ASSUME NEW m \in Vms, DeleteRunVm(h, m)
       PROVE  StoreTypeOK' /\ ApiTypeOK'
  <2>1. PICK o \in DeleteOutcome :
          /\ DeleteVm(m, request[h].prefix, o)
          /\ Continue(h, [request[h] EXCEPT
            !.todo = @ \ {m},
            !.failed = IF KeepsEntry(o) THEN @ \cup {m} ELSE @,
            !.progress = @ \/ o # "failed"])
    BY <1>4 DEF DeleteRunVm
  <2> DEFINE q == [request[h] EXCEPT
            !.todo = @ \ {m},
            !.failed = IF KeepsEntry(o) THEN @ \cup {m} ELSE @,
            !.progress = @ \/ o # "failed"]
  <2>2. q \in Request
    BY <1>0 DEF Request
  <2>3. StoreTypeOK'
    BY <1>4, <2>1 DEF DeleteRunVm, DeleteVm, StoreTypeOK
  <2>4. Continue(h, q)
    BY <2>1
  <2> HIDE DEF q
  <2> QED  BY <2>2, <2>3, <2>4, ContinueTyped
<1>5. ASSUME NEW m \in Vms, DeletePrefixedVm(h, m)
       PROVE  StoreTypeOK' /\ ApiTypeOK'
  <2>1. PICK o \in DeleteOutcome :
          /\ DeleteVm(m, request[h].prefix, o)
          /\ Continue(h, [request[h] EXCEPT
            !.todo = @ \ {m},
            !.failed = IF KeepsEntry(o) THEN @ \cup {m} ELSE @])
    BY <1>5 DEF DeletePrefixedVm
  <2> DEFINE q == [request[h] EXCEPT
            !.todo = @ \ {m},
            !.failed = IF KeepsEntry(o) THEN @ \cup {m} ELSE @]
  <2>2. q \in Request
    BY <1>0 DEF Request
  <2>3. StoreTypeOK'
    BY <1>5, <2>1 DEF DeletePrefixedVm, DeleteVm, StoreTypeOK
  <2>4. Continue(h, q)
    BY <2>1
  <2> HIDE DEF q
  <2> QED  BY <2>2, <2>3, <2>4, ContinueTyped
<1>6. ASSUME DeleteMeetsGoneVm(h)
       PROVE  StoreTypeOK' /\ ApiTypeOK'
  <2>1. StoreTypeOK'
    BY <1>6 DEF DeleteMeetsGoneVm, StoreTypeOK, storeVars
  <2> QED  BY <1>6, <2>1, ReplyTyped DEF DeleteMeetsGoneVm, Abort
<1>7. ASSUME DeleteRunIsos(h)
       PROVE  StoreTypeOK' /\ ApiTypeOK'
  <2>1. PICK kept \in SUBSET request[h].isos :
          /\ DeleteIsos(request[h].isos, kept)
          /\ Continue(h, [request[h] EXCEPT
            !.pc = "write", !.isoFailed = kept,
            !.progress = @ \/ kept # request[h].isos])
    BY <1>7 DEF DeleteRunIsos
  <2> DEFINE q == [request[h] EXCEPT
            !.pc = "write", !.isoFailed = kept,
            !.progress = @ \/ kept # request[h].isos]
  <2>2. q \in Request
    BY <1>0 DEF Request, RequestPc
  <2>3. StoreTypeOK'
    BY <1>7, <2>1 DEF DeleteRunIsos, DeleteIsos, StoreTypeOK
  <2>4. Continue(h, q)
    BY <2>1
  <2> HIDE DEF q
  <2> QED  BY <2>2, <2>3, <2>4, ContinueTyped
<1>8. ASSUME WriteBackRun(h)
       PROVE  StoreTypeOK' /\ ApiTypeOK'
  <2> DEFINE q == [request[h] EXCEPT
            !.pc = "status", !.vms = request[h].vms \cap request[h].failed,
            !.isos = request[h].isoFailed]
  <2>1. q \in Request
    BY <1>0 DEF Request, RequestPc
  <2>2. Continue(h, q)
    BY <1>8 DEF WriteBackRun
  <2>3. /\ (request[h].vms \cap request[h].failed) \in SUBSET Vms /\ request[h].isoFailed \in SUBSET Isos
        /\ request[h].run \in Runs
    BY <1>0 DEF Request
  <2>4. StoreTypeOK'
    BY <1>8, <2>3, UpsertTyped DEF WriteBackRun, StoreTypeOK
  <2> HIDE DEF q
  <2> QED  BY <2>1, <2>2, <2>4, ContinueTyped
<1>9. ASSUME StatusRun(h)
       PROVE  StoreTypeOK' /\ ApiTypeOK'
  <2>1. DerivedState(h) \in CleanupState
    BY DEF DerivedState, DeriveCleanupState, CleanupState
  <2>2. WriteStatus(request[h].run, DerivedState(h)) /\ Reply(h, DerivedState(h)) /\ UNCHANGED <<inventory, datastore, runrow>>
    BY <1>9 DEF StatusRun
  <2>3. StoreTypeOK'
    BY <2>1, <2>2, <1>0, WriteStatusTyped DEF StoreTypeOK, Request
  <2> QED  BY <2>1, <2>2, <2>3, ReplyTyped
<1>10. ASSUME ListAllVms(h)
       PROVE  StoreTypeOK' /\ ApiTypeOK'
  <2> DEFINE q == [request[h] EXCEPT
            !.pc = "a-delete", !.seen = inventory,
            !.todo = {m \in inventory : HasPrefix(m, request[h].prefix)}]
  <2>1. q \in Request
    BY <1>0 DEF Request, RequestPc, StoreTypeOK
  <2>2. Continue(h, q) \/ Reply(h, "none")
    BY <1>10 DEF ListAllVms, Abort
  <2>3. StoreTypeOK'
    BY <1>10 DEF ListAllVms, StoreTypeOK, storeVars
  <2> HIDE DEF q
  <2> QED  BY <2>1, <2>2, <2>3, ContinueTyped, ReplyTyped
<1>11. ASSUME AllMeetsGoneVm(h)
       PROVE  StoreTypeOK' /\ ApiTypeOK'
  <2>1. StoreTypeOK'
    BY <1>11 DEF AllMeetsGoneVm, StoreTypeOK, storeVars
  <2> QED  BY <1>11, <2>1, ReplyTyped DEF AllMeetsGoneVm, Abort
<1>12. ASSUME DeleteAllIsos(h)
       PROVE  StoreTypeOK' /\ ApiTypeOK'
  <2>1. PICK kept \in SUBSET request[h].isoScope :
          /\ DeleteIsos(request[h].isoScope, kept)
          /\ Continue(h, [request[h] EXCEPT !.pc = "a-runs", !.isoFailed = kept])
    BY <1>12 DEF DeleteAllIsos
  <2> DEFINE q == [request[h] EXCEPT !.pc = "a-runs", !.isoFailed = kept]
  <2>2. q \in Request
    BY <1>0 DEF Request, RequestPc
  <2>3. StoreTypeOK'
    BY <1>12, <2>1 DEF DeleteAllIsos, DeleteIsos, StoreTypeOK
  <2>4. Continue(h, q)
    BY <2>1
  <2> HIDE DEF q
  <2> QED  BY <2>2, <2>3, <2>4, ContinueTyped
<1>13. ASSUME NEW r \in Runs, RereadRun(h, r)
       PROVE  StoreTypeOK' /\ ApiTypeOK'
  <2> DEFINE new(a, b, c, d) == [request[h] EXCEPT !.pc = "a-write", !.run = r, !.vms = a,
                               !.isos = b, !.touched = c, !.progress = d]
  <2>1. ASSUME NEW a \in SUBSET Vms, NEW b \in SUBSET Isos, NEW c \in BOOLEAN, NEW d \in BOOLEAN
        PROVE new(a, b, c, d) \in Request
    BY <1>0 DEF Request, RequestPc
  <2>2. objrow[r].vms \in SUBSET Vms /\ objrow[r].isos \in SUBSET Isos
    BY DEF StoreTypeOK, ObjectRow
  <2>3. PICK a \in SUBSET Vms, b \in SUBSET Isos, c \in BOOLEAN, d \in BOOLEAN :
          Continue(h, new(a, b, c, d))
    BY <1>13, <2>2 DEF RereadRun
  <2>4. StoreTypeOK'
    BY <1>13 DEF RereadRun, StoreTypeOK, storeVars
  <2> HIDE DEF new
  <2> QED  BY <2>1, <2>3, <2>4, ContinueTyped
<1>14. ASSUME WriteBackAll(h)
       PROVE  StoreTypeOK' /\ ApiTypeOK'
  <2> DEFINE q == [request[h] EXCEPT !.pc = "a-status"]
  <2>1. q \in Request
    BY <1>0 DEF Request, RequestPc
  <2>2. Continue(h, q)
    BY <1>14 DEF WriteBackAll
  <2>3. /\ request[h].vms \in SUBSET Vms /\ request[h].isos \in SUBSET Isos
        /\ request[h].run \in Runs
    BY <1>0 DEF Request
  <2>4. StoreTypeOK'
    BY <1>14, <2>3, UpsertTyped DEF WriteBackAll, StoreTypeOK
  <2> HIDE DEF q
  <2> QED  BY <2>1, <2>2, <2>4, ContinueTyped
<1>15. ASSUME StatusAll(h)
       PROVE  StoreTypeOK' /\ ApiTypeOK'
  <2> DEFINE q == [request[h] EXCEPT !.pc = "a-runs", !.tracked = @ \ {request[h].run}]
  <2>1. q \in Request
    BY <1>0 DEF Request, RequestPc
  <2>2. Continue(h, q)
    BY <1>15 DEF StatusAll
  <2>3. DerivedState(h) \in CleanupState /\ request[h].run \in Runs
    BY <1>0 DEF DerivedState, DeriveCleanupState, CleanupState, Request
  <2>4. StoreTypeOK'
    BY <1>15, <2>3, WriteStatusTyped DEF StatusAll, StoreTypeOK
  <2> HIDE DEF q
  <2> QED  BY <2>1, <2>2, <2>4, ContinueTyped
<1>16. ASSUME AllDone(h)
       PROVE  StoreTypeOK' /\ ApiTypeOK'
  <2>1. StoreTypeOK'
    BY <1>16 DEF AllDone, StoreTypeOK, storeVars
  <2> QED  BY <1>16, <2>1, ReplyTyped DEF AllDone, Abort
<1> QED
  BY <1>0, <1>1, <1>2, <1>3, <1>4, <1>5, <1>6, <1>7, <1>8, <1>9, <1>10,
     <1>11, <1>12, <1>13, <1>14, <1>15, <1>16
  DEF HandlerStep

\* Every step of the system keeps all types.
LEMMA TypeNext ==
  ASSUME TypeOK, [Next]_vars
  PROVE  TypeOK'
<1> USE DEF TypeOK
<1>1. ASSUME NEW r \in Runs, Start(r) PROVE TypeOK'
  BY <1>1 DEF Start, StartRun, StoreTypeOK, WorkerTypeOK, ApiTypeOK, Goto, Pc,
     ActivePc, RunStatus, threadVars, cleanVars, testVars, historyVars
<1>2. ASSUME NEW r \in Runs, Cancel(r) PROVE TypeOK'
  BY <1>2 DEF Cancel, CancelRun, StoreTypeOK, WorkerTypeOK, ApiTypeOK, storeVars,
     requestVars, threadVars, cleanVars, testVars, historyVars
<1>3. ASSUME NEW r \in Runs, Work(r) PROVE TypeOK'
  BY <1>3, WorkerTyped DEF Work, ApiTypeOK
<1>4. ASSUME NEW r \in Runs, DeleteHistory(r) PROVE TypeOK'
  <2>1. NoRow \in ObjectRow
    BY DEF NoRow, ObjectRow, CleanupState
  <2>2. WorkerTypeOK' /\ ApiTypeOK'
    BY <1>4 DEF DeleteHistory, ApiDeleteHistory, WorkerTypeOK, ApiTypeOK, workerVars,
       requestVars, threadVars, cleanVars, testVars, historyVars
  <2>3. StoreTypeOK'
    BY <1>4, <2>1 DEF DeleteHistory, ApiDeleteHistory, StoreTypeOK, RunStatus
  <2> QED  BY <2>2, <2>3
<1>5. ASSUME NEW h \in Handlers, NEW r \in Runs, CleanupRun(h, r) PROVE TypeOK'
  <2>1. PICK l \in RequestPc, p \in Prefixes :
          Continue(h, [NewRequest(l, r, p) EXCEPT !.vms = objrow[r].vms, !.isos = objrow[r].isos])
    BY <1>5 DEF CleanupRun, ApiCleanupRun, RequestPc
  <2> DEFINE q == [NewRequest(l, r, p) EXCEPT !.vms = objrow[r].vms, !.isos = objrow[r].isos]
  <2>2. /\ NewRequest(l, r, p) \in Request
        /\ objrow[r].vms \in SUBSET Vms /\ objrow[r].isos \in SUBSET Isos
    BY NewRequestTyped DEF StoreTypeOK, ObjectRow
  <2>3. ApiTypeOK'
    <3>1. q \in Request
      BY <2>2 DEF Request
    <3> HIDE DEF q
    <3> QED  BY <2>1, <3>1, ContinueTyped DEF q
  <2>4. StoreTypeOK' /\ WorkerTypeOK'
    BY <1>5 DEF CleanupRun, ApiCleanupRun, StoreTypeOK, WorkerTypeOK, storeVars, workerVars,
       requestVars, threadVars, cleanVars, testVars, historyVars
  <2> QED  BY <2>3, <2>4
<1>6. ASSUME NEW h \in Handlers, CleanupAll(h) PROVE TypeOK'
  <2> DEFINE rows == {r \in Runs : objrow[r].present}
             isos == UNION {objrow[r].isos : r \in rows}
             q(p) == [NewRequest("a-connect", request[h].run, p) EXCEPT
                        !.tracked = rows, !.isoScope = isos]
  <2>1. PICK p \in Prefixes : Continue(h, q(p))
    BY <1>6 DEF CleanupAll, ApiCleanupAll
  <2>2. isos \in SUBSET Isos
    BY DEF StoreTypeOK, ObjectRow
  <2>3. NewRequest("a-connect", request[h].run, p) \in Request
    BY NewRequestTyped DEF ApiTypeOK, Request, RequestPc
  <2>4. q(p) \in Request
    <3> HIDE DEF isos
    <3> QED  BY <2>2, <2>3 DEF Request
  <2>5. ApiTypeOK'
    BY <2>1, <2>4, ContinueTyped
  <2>6. StoreTypeOK' /\ WorkerTypeOK'
    BY <1>6 DEF CleanupAll, ApiCleanupAll, StoreTypeOK, WorkerTypeOK, storeVars, workerVars,
       requestVars, threadVars, cleanVars, testVars, historyVars
  <2> QED  BY <2>5, <2>6
<1>7. ASSUME NEW h \in Handlers, Handle(h) PROVE TypeOK'
  <2>1. WorkerTypeOK'
    BY <1>7 DEF Handle, WorkerTypeOK, workerVars, requestVars, threadVars, cleanVars,
       testVars, historyVars
  <2> QED  BY <1>7, <2>1, HandlerTyped DEF Handle
<1>8. ASSUME Restart PROVE TypeOK'
  <2>1. EndThreads(Runs)
    BY <1>8 DEF Restart
  <2>2. NoRequest \in Request
    BY NewRequestTyped, ObjectsAssumption DEF NoRequest, RequestPc
  <2>3. StoreTypeOK' /\ ApiTypeOK'
    BY <1>8, <2>2 DEF Restart, StoreTypeOK, ApiTypeOK, storeVars
  <2>4. pc' \in [Runs -> Pc] /\ returncode' \in [Runs -> {NoCode} \cup (0..5)]
        /\ cancel' \in [Runs -> BOOLEAN]
    BY <1>8 DEF Restart, Pc
  <2>5. WorkerTypeOK'
    BY <1>8, <2>1, <2>4, EndThreadsTyped DEF Restart, WorkerTypeOK, requestVars, historyVars
  <2> QED  BY <2>3, <2>5
<1>9. CASE UNCHANGED vars
  BY <1>9 DEF vars, StoreTypeOK, WorkerTypeOK, ApiTypeOK, storeVars, workerVars, requestVars,
     threadVars, cleanVars, testVars, historyVars
<1> QED
  <2> HIDE DEF TypeOK
  <2> QED  BY <1>1, <1>2, <1>3, <1>4, <1>5, <1>6, <1>7, <1>8, <1>9 DEF Next

\* The variables keep their types: runs, registry rows, the threads' locals and
\* the handlers' locals hold what nettest/db.py, runner.py and routes_run.py put
\* there.
THEOREM TypeCorrect == Spec => []TypeOK
<1>1. Init => TypeOK
  BY TypeInit
<1>2. TypeOK /\ [Next]_vars => TypeOK'
  BY TypeNext
<1> QED  BY <1>1, <1>2, PTL DEF Spec

-----------------------------------------------------------------------------
(* MemoryCoversLive is not inductive: pruning takes VMs off the registry,  *)
(* so one has to know that those are gone (CleanedAreGone), and a new VM   *)
(* must not be an old one come back (Own).                                 *)

\* Every VM a worker holds is one that it created, and no run creates any
\* before it starts.
Own(r) ==
  /\ inst[r] \cup seeds[r] \cup fresh[r] \cup mem[r].vms \cup registered[r] \subseteq created[r]
  /\ allInst[r] \cup todo[r] \subseteq created[r]
  /\ pc[r] = "idle" => created[r] = {}

\* In the middle of cleanup_vms: what was visited and is not listed as failed is
\* gone.
CleanedAreGone(r) ==
  pc[r] = "cleanup" => (inst[r] \ (failedVms[r] \cup todo[r])) \cap inventory = {}

\* MemoryCoversLive for one run.
MemoryCovers(r) == Active(r) => LiveRegistered(r) \subseteq mem[r].vms

\* The inductive invariant.
MemoryInv == \A r \in Runs : Own(r) /\ CleanedAreGone(r) /\ MemoryCovers(r)

\* The types the steps of a worker depend on here.
WorkerTypes ==
  /\ pc \in [Runs -> Pc] /\ mem \in [Runs -> Registry]
  /\ inst \in [Runs -> SUBSET Vms] /\ seeds \in [Runs -> SUBSET Vms]
  /\ fresh \in [Runs -> SUBSET Vms] /\ todo \in [Runs -> SUBSET Vms]
  /\ allInst \in [Runs -> SUBSET Vms]
  /\ failedVms \in [Runs -> SUBSET Vms] /\ created \in [Runs -> SUBSET Vms]
  /\ registered \in [Runs -> SUBSET Vms] /\ runrow \in [Runs -> RunStatus]

\* Pruning takes off the in-memory registry no more than Prunable.
LEMMA PruneMemory ==
  ASSUME NEW r \in Runs, WorkerTypes, PruneRegistry(r)
  PROVE  \A q \in Runs :
           /\ mem'[q].vms \subseteq mem[q].vms
           /\ registered'[q] \subseteq registered[q] \cup mem[q].vms
           /\ mem[q].vms \subseteq mem'[q].vms \cup Prunable(r)
<1>1. CASE UNCHANGED <<mem, registered>>
  BY <1>1
<1>2. CASE mem' = [mem EXCEPT ![r].vms = @ \ Prunable(r)] /\ Persist(r)
  <2>1. \A q \in Runs : mem'[q].vms = IF q = r THEN mem[q].vms \ Prunable(r) ELSE mem[q].vms
    BY <1>2 DEF WorkerTypes, Registry
  <2>2. \A q \in Runs : registered'[q] \subseteq registered[q] \cup mem'[q].vms
    BY <1>2 DEF Persist, WorkerTypes
  <2> QED  BY <2>1, <2>2
<1> QED  BY <1>1, <1>2 DEF PruneRegistry

\* A step of a worker keeps the invariant.
LEMMA MemoryWork ==
  ASSUME NEW r \in Runs, WorkerTypes, MemoryInv, WorkerStep(r)
  PROVE  MemoryInv'
<1> USE DEF WorkerTypes, MemoryInv, Own, CleanedAreGone, MemoryCovers, LiveRegistered, Active,
        ActivePc, Pc, Goto, storeVars, requestVars, threadVars, cleanVars, testVars, historyVars
<1>1. ASSUME Prepare(r) PROVE MemoryInv'
  BY <1>1 DEF Prepare, ProvisionPcs
<1>2. ASSUME BeginPhase(r) PROVE MemoryInv'
  BY <1>2 DEF BeginPhase, ProvisionPcs
<1>3. ASSUME EndPhases(r) PROVE MemoryInv'
  BY <1>3 DEF EndPhases
<1>4. ASSUME NEW m \in Vms, DeploySeed(r, m) PROVE MemoryInv'
  BY <1>4 DEF DeploySeed, NewVm, Raise, Used
<1>5. ASSUME NEW m \in Vms, CreateVm(r, m) PROVE MemoryInv'
  BY <1>5 DEF CreateVm, NewVm, Raise, Used
<1>6. ASSUME NEW i \in Isos, RegisterIso(r, i) PROVE MemoryInv'
  <2>1. /\ pc[r] = "cluster" /\ pc'[r] \in {"cluster", "create", "error"}
        /\ \A q \in Runs \ {r} : pc'[q] = pc[q]
        /\ UNCHANGED <<inventory, inst, seeds, fresh, created, failedVms, todo, allInst>>
    BY <1>6 DEF RegisterIso, Raise
  <2>2. \A q \in Runs : mem'[q].vms = mem[q].vms
    BY <1>6 DEF RegisterIso, Registry
  <2>3. \A q \in Runs : registered'[q] \subseteq registered[q] \cup mem[q].vms
    <3>1. CASE Persist(r)
      BY <2>2, <3>1 DEF Persist
    <3>2. CASE UNCHANGED registered
      BY <3>2
    <3> QED  BY <1>6, <3>1, <3>2 DEF RegisterIso
  <2> QED  BY <2>1, <2>2, <2>3
<1>7. ASSUME ProbeSubnet(r) PROVE MemoryInv'
  BY <1>7 DEF ProbeSubnet
<1>8. ASSUME NEW m \in fresh[r], RegisterVm(r, m) PROVE MemoryInv'
  BY <1>8 DEF RegisterVm, Record, Persist
<1>9. ASSUME NEW m \in seeds[r], RegisterSeed(r, m) PROVE MemoryInv'
  BY <1>9 DEF RegisterSeed, Record, Persist
<1>10. ASSUME NextSubnet(r) PROVE MemoryInv'
  BY <1>10 DEF NextSubnet
<1>11. ASSUME ReturnInstances(r) PROVE MemoryInv'
  BY <1>11 DEF ReturnInstances, AllRecorded
<1>12. ASSUME NEW v \in {"PASS", "FAIL"}, RunChecks(r, v) PROVE MemoryInv'
  BY <1>12 DEF RunChecks, ClassicChecks, PhaseChecks, Judge, StartCleanup
<1>13. ASSUME NEW m \in todo[r], DestroyVm(r, m) PROVE MemoryInv'
  BY <1>13 DEF DestroyVm, Destroy, Found, CleanupPc
<1>14. ASSUME CleanupBreaks(r) PROVE MemoryInv'
  BY <1>14 DEF CleanupBreaks, CleanupPc
<1>15. ASSUME PruneRegistry(r) PROVE MemoryInv'
  <2>1. todo[r] = {} /\ pc[r] = "cleanup" /\ pc'[r] \in {"phase", "iso"}
        /\ UNCHANGED <<inventory, inst, seeds, fresh, created, failedVms, todo, allInst>>
        /\ \A q \in Runs \ {r} : pc'[q] = pc[q]
    BY <1>15 DEF PruneRegistry
  <2>2. Prunable(r) \cap inventory = {}
    BY <2>1 DEF Prunable
  <2>3. \A q \in Runs :
          /\ mem'[q].vms \subseteq mem[q].vms
          /\ registered'[q] \subseteq registered[q] \cup mem[q].vms
          /\ mem[q].vms \subseteq mem'[q].vms \cup Prunable(r)
    BY <1>15, PruneMemory
  <2>4. \A q \in Runs : registered'[q] \subseteq created[q] /\ mem'[q].vms \subseteq created[q]
    BY <2>3
  <2>5. \A q \in Runs : Active(q) => registered'[q] \cap inventory \subseteq mem'[q].vms
    BY <2>2, <2>3
  <2> QED  BY <2>1, <2>4, <2>5
<1>16. ASSUME CleanIsos(r) PROVE MemoryInv'
  <2>1. pc[r] = "iso" /\ pc' = [pc EXCEPT ![r] = "finish"]
        /\ UNCHANGED <<inventory, inst, seeds, fresh, created, failedVms, todo, allInst>>
    BY <1>16 DEF CleanIsos
  <2>2. \A q \in Runs : mem'[q].vms = mem[q].vms
    BY <1>16 DEF CleanIsos, Registry
  <2>3. \A q \in Runs : registered'[q] \subseteq registered[q] \cup mem[q].vms
    BY <1>16, <2>2 DEF CleanIsos, Persist
  <2> QED  BY <2>1, <2>2, <2>3
<1>17. ASSUME FinishRun(r) PROVE MemoryInv'
  BY <1>17 DEF FinishRun
<1>18. ASSUME MarkRunCleaned(r) PROVE MemoryInv'
  BY <1>18 DEF MarkRunCleaned
<1>19. ASSUME CancelNoticed(r) PROVE MemoryInv'
  BY <1>19 DEF CancelNoticed, StartCleanup, CancelPc
<1>20. ASSUME CancelCleanupDone(r) PROVE MemoryInv'
  BY <1>20 DEF CancelCleanupDone
<1>21. ASSUME WorkerRaises(r) PROVE MemoryInv'
  BY <1>21 DEF WorkerRaises, Raise, RaisePc
<1>22. ASSUME RecordError(r) PROVE MemoryInv'
  BY <1>22 DEF RecordError
<1>23. ASSUME PublishReturncode(r) PROVE MemoryInv'
  <2>1. pc' = [pc EXCEPT ![r] = "done"] /\ UNCHANGED <<inventory, created, registered, inst>>
    BY <1>23 DEF PublishReturncode, EndThreads
  <2>2. \A q \in Runs :
          /\ mem'[q].vms = IF q = r THEN {} ELSE mem[q].vms
          /\ seeds'[q] \subseteq seeds[q] /\ fresh'[q] \subseteq fresh[q]
          /\ allInst'[q] \subseteq allInst[q] /\ todo'[q] \subseteq todo[q]
          /\ q # r => todo'[q] = todo[q] /\ failedVms'[q] = failedVms[q]
    BY <1>23 DEF PublishReturncode, EndThreads, NothingCreated
  <2> QED  BY <2>1, <2>2
<1> QED
  <2> HIDE DEF MemoryInv
  <2> QED  BY <1>1, <1>2, <1>3, <1>4, <1>5, <1>6, <1>7, <1>8, <1>9, <1>10, <1>11, <1>12,
              <1>13, <1>14, <1>15, <1>16, <1>17, <1>18, <1>19, <1>20, <1>21, <1>22,
              <1>23 DEF WorkerStep

-----------------------------------------------------------------------------
\* No handler brings a VM into being.
LEMMA HandlersOnlyDestroy ==
  ASSUME NEW h \in Handlers, HandlerStep(h)
  PROVE  inventory' \subseteq inventory /\ UNCHANGED runrow
BY DEF HandlerStep, NothingToClean, ListVms, SkipVm, DeleteRunVm, DeletePrefixedVm, DeleteVm,
   DeleteMeetsGoneVm, DeleteRunIsos, WriteBackRun, StatusRun, ListAllVms, AllMeetsGoneVm,
   DeleteAllIsos, RereadRun, WriteBackAll, StatusAll, AllDone, storeVars

\* So does a step that leaves the workers alone and only takes VMs away.
LEMMA MemoryFrame ==
  ASSUME MemoryInv, inventory' \subseteq inventory, UNCHANGED workerVars
  PROVE  MemoryInv'
BY DEF MemoryInv, Own, CleanedAreGone, MemoryCovers, LiveRegistered, Active, workerVars,
   threadVars, cleanVars, historyVars

\* It holds at first.
LEMMA MemoryInit == Init => MemoryInv
BY DEF Init, WorkerInit, MemoryInv, Own, CleanedAreGone, MemoryCovers, Active, ActivePc,
   NothingCreated

\* WorkerTypes is part of the type invariant.
LEMMA TypesFromTypeOK == TypeOK => WorkerTypes
BY DEF TypeOK, WorkerTypeOK, StoreTypeOK, WorkerTypes

\* Every step of the system keeps it.
LEMMA MemoryNext ==
  ASSUME TypeOK, MemoryInv, [Next]_vars
  PROVE  MemoryInv'
<1>1. ASSUME NEW r \in Runs, Start(r) PROVE MemoryInv'
  <2>1. pc[r] = "idle" /\ WorkerTypes /\ pc' \in [Runs -> Pc]
        /\ (\A q \in Runs \ {r} : pc'[q] = pc[q]) /\ pc'[r] \in {"init", "rejected"}
    BY <1>1, TypesFromTypeOK DEF Start, StartRun, Goto, WorkerTypes, Pc, ActivePc
  <2>2. UNCHANGED <<inventory, mem, threadVars, cleanVars, historyVars>>
    BY <1>1 DEF Start, StartRun
  <2> QED
    BY <2>1, <2>2 DEF MemoryInv, Own, CleanedAreGone, MemoryCovers, LiveRegistered, Active,
       threadVars, cleanVars, historyVars, WorkerTypes
<1>2. ASSUME NEW r \in Runs, Cancel(r) PROVE MemoryInv'
  BY <1>2 DEF Cancel, CancelRun, MemoryInv, Own, CleanedAreGone, MemoryCovers, LiveRegistered,
     Active, storeVars, threadVars, cleanVars, historyVars
<1>3. ASSUME NEW r \in Runs, Work(r) PROVE MemoryInv'
  BY <1>3, MemoryWork, TypesFromTypeOK DEF Work
<1>4. ASSUME NEW r \in Runs, DeleteHistory(r) PROVE MemoryInv'
  BY <1>4, MemoryFrame DEF DeleteHistory, ApiDeleteHistory
<1>5. ASSUME NEW h \in Handlers, NEW r \in Runs, CleanupRun(h, r) PROVE MemoryInv'
  BY <1>5, MemoryFrame DEF CleanupRun, ApiCleanupRun, storeVars
<1>6. ASSUME NEW h \in Handlers, CleanupAll(h) PROVE MemoryInv'
  BY <1>6, MemoryFrame DEF CleanupAll, ApiCleanupAll, storeVars
<1>7. ASSUME NEW h \in Handlers, Handle(h) PROVE MemoryInv'
  BY <1>7, MemoryFrame, HandlersOnlyDestroy DEF Handle
<1>8. ASSUME Restart PROVE MemoryInv'
  <2>1. \A q \in Runs : /\ mem'[q].vms = {} /\ seeds'[q] = {} /\ fresh'[q] = {}
                        /\ allInst'[q] = {} /\ todo'[q] = {}
    BY <1>8 DEF Restart, EndThreads, NothingCreated
  <2>2. UNCHANGED <<inst, created, registered>>
        /\ \A q \in Runs : pc'[q] = IF pc[q] = "idle" THEN "idle" ELSE "lost"
    BY <1>8 DEF Restart, EndThreads, historyVars
  <2> QED
    BY <2>1, <2>2 DEF MemoryInv, Own, CleanedAreGone, MemoryCovers, Active, ActivePc
<1>9. CASE UNCHANGED vars
  BY <1>9, MemoryFrame DEF vars, storeVars
<1> QED  BY <1>1, <1>2, <1>3, <1>4, <1>5, <1>6, <1>7, <1>8, <1>9 DEF Next

\* While a worker runs, created_registry in its memory lists every VM it has
\* registered and that still exists: _prune_cleaned_vms_from_registry and the
\* clean-up endpoints running beside it cannot make it lose one.
THEOREM MemoryCorrect == Spec => []MemoryCoversLive
<1>1. Init => MemoryInv
  BY MemoryInit
<1>2. TypeOK /\ MemoryInv /\ [Next]_vars => MemoryInv'
  BY MemoryNext
<1>3. MemoryInv => MemoryCoversLive
  BY DEF MemoryInv, MemoryCovers, MemoryCoversLive
<1> QED  BY <1>1, <1>2, <1>3, TypeCorrect, PTL DEF Spec

-----------------------------------------------------------------------------
(* ReportedRunRegisteredAll follows a VM from its creation to its entry in *)
(* the registry: between provisioning calls nothing is outstanding, within *)
(* one the outstanding VMs are seeds or fresh.                             *)

\* Positions of the worker at which no VM is outstanding.
Settled == {"idle", "init", "phase", "test", "cleanup", "iso", "finish", "mark"}
\* Positions inside provision_test_vms.
Provisioning == {"cluster", "create", "register", "seeds"}

\* VMs that are not registered are still to be, and a result is stored only when
\* there are none.
NothingForgotten(r) ==
  /\ pc[r] \in Settled => created[r] \subseteq registered[r]
  /\ pc[r] \in Provisioning => created[r] \subseteq registered[r] \cup seeds[r] \cup fresh[r]
  /\ runrow[r] \in {"PASS", "FAIL"} =>
       created[r] \subseteq registered[r] /\ pc[r] \in {"mark", "rc", "done", "lost"}

\* The inductive invariant.
ReportInv == \A r \in Runs : NothingForgotten(r)

\* A step of a worker keeps it.
LEMMA ReportWork ==
  ASSUME NEW r \in Runs, WorkerTypes, ReportInv, WorkerStep(r)
  PROVE  ReportInv'
<1> USE DEF WorkerTypes, ReportInv, NothingForgotten, Settled, Provisioning, Pc, ActivePc,
        Goto, storeVars, requestVars, threadVars, cleanVars, testVars, historyVars
<1>1. ASSUME Prepare(r) PROVE ReportInv'
  BY <1>1 DEF Prepare, ProvisionPcs
<1>2. ASSUME BeginPhase(r) PROVE ReportInv'
  BY <1>2 DEF BeginPhase, ProvisionPcs
<1>3. ASSUME EndPhases(r) PROVE ReportInv'
  BY <1>3 DEF EndPhases
<1>4. ASSUME NEW m \in Vms, DeploySeed(r, m) PROVE ReportInv'
  BY <1>4 DEF DeploySeed, NewVm, Raise
<1>5. ASSUME NEW m \in Vms, CreateVm(r, m) PROVE ReportInv'
  BY <1>5 DEF CreateVm, NewVm, Raise
<1>6. ASSUME NEW i \in Isos, RegisterIso(r, i) PROVE ReportInv'
  BY <1>6 DEF RegisterIso, Persist, Raise
<1>7. ASSUME ProbeSubnet(r) PROVE ReportInv'
  BY <1>7 DEF ProbeSubnet
<1>8. ASSUME NEW m \in fresh[r], RegisterVm(r, m) PROVE ReportInv'
  BY <1>8 DEF RegisterVm, Record, Persist
<1>9. ASSUME NEW m \in seeds[r], RegisterSeed(r, m) PROVE ReportInv'
  BY <1>9 DEF RegisterSeed, Record, Persist
<1>10. ASSUME NextSubnet(r) PROVE ReportInv'
  BY <1>10 DEF NextSubnet
<1>11. ASSUME ReturnInstances(r) PROVE ReportInv'
  BY <1>11 DEF ReturnInstances, AllRecorded
<1>12. ASSUME NEW v \in {"PASS", "FAIL"}, RunChecks(r, v) PROVE ReportInv'
  BY <1>12 DEF RunChecks, ClassicChecks, PhaseChecks, Judge
<1>13. ASSUME NEW m \in todo[r], DestroyVm(r, m) PROVE ReportInv'
  BY <1>13 DEF DestroyVm, CleanupPc
<1>14. ASSUME CleanupBreaks(r) PROVE ReportInv'
  BY <1>14 DEF CleanupBreaks, CleanupPc
<1>15. ASSUME PruneRegistry(r) PROVE ReportInv'
  BY <1>15 DEF PruneRegistry, Persist
<1>16. ASSUME CleanIsos(r) PROVE ReportInv'
  BY <1>16 DEF CleanIsos, Persist
<1>17. ASSUME FinishRun(r) PROVE ReportInv'
  BY <1>17 DEF FinishRun, FinalStatus
<1>18. ASSUME MarkRunCleaned(r) PROVE ReportInv'
  BY <1>18 DEF MarkRunCleaned
<1>19. ASSUME CancelNoticed(r) PROVE ReportInv'
  BY <1>19 DEF CancelNoticed, CancelPc
<1>20. ASSUME CancelCleanupDone(r) PROVE ReportInv'
  BY <1>20 DEF CancelCleanupDone
<1>21. ASSUME WorkerRaises(r) PROVE ReportInv'
  BY <1>21 DEF WorkerRaises, Raise, RaisePc
<1>22. ASSUME RecordError(r) PROVE ReportInv'
  BY <1>22 DEF RecordError
<1>23. ASSUME PublishReturncode(r) PROVE ReportInv'
  BY <1>23 DEF PublishReturncode, EndThreads
<1> QED
  <2> HIDE DEF ReportInv
  <2> QED  BY <1>1, <1>2, <1>3, <1>4, <1>5, <1>6, <1>7, <1>8, <1>9, <1>10, <1>11, <1>12,
              <1>13, <1>14, <1>15, <1>16, <1>17, <1>18, <1>19, <1>20, <1>21, <1>22,
              <1>23 DEF WorkerStep

\* So does a step that leaves the workers and the status of the runs alone.
LEMMA ReportFrame ==
  ASSUME ReportInv, UNCHANGED <<workerVars, runrow>>
  PROVE  ReportInv'
BY DEF ReportInv, NothingForgotten, workerVars, threadVars, historyVars

\* Every step of the system keeps it.
LEMMA ReportNext ==
  ASSUME TypeOK, ReportInv, [Next]_vars
  PROVE  ReportInv'
<1>1. ASSUME NEW r \in Runs, Start(r) PROVE ReportInv'
  BY <1>1, TypesFromTypeOK DEF Start, StartRun, Goto, WorkerTypes, RunStatus, ReportInv,
     NothingForgotten, Settled, Provisioning, threadVars, historyVars
<1>2. ASSUME NEW r \in Runs, Cancel(r) PROVE ReportInv'
  BY <1>2 DEF Cancel, CancelRun, ReportInv, NothingForgotten, storeVars, threadVars,
     historyVars
<1>3. ASSUME NEW r \in Runs, Work(r) PROVE ReportInv'
  BY <1>3, ReportWork, TypesFromTypeOK DEF Work
<1>4. ASSUME NEW r \in Runs, DeleteHistory(r) PROVE ReportInv'
  BY <1>4, TypesFromTypeOK DEF DeleteHistory, ApiDeleteHistory, WorkerTypes, ReportInv,
     NothingForgotten, workerVars, threadVars, historyVars
<1>5. ASSUME NEW h \in Handlers, NEW r \in Runs, CleanupRun(h, r) PROVE ReportInv'
  BY <1>5, ReportFrame DEF CleanupRun, ApiCleanupRun, storeVars
<1>6. ASSUME NEW h \in Handlers, CleanupAll(h) PROVE ReportInv'
  BY <1>6, ReportFrame DEF CleanupAll, ApiCleanupAll, storeVars
<1>7. ASSUME NEW h \in Handlers, Handle(h) PROVE ReportInv'
  BY <1>7, ReportFrame, HandlersOnlyDestroy DEF Handle
<1>8. ASSUME Restart PROVE ReportInv'
  <2>1. UNCHANGED <<created, registered, runrow>>
        /\ \A q \in Runs : pc'[q] = IF pc[q] = "idle" THEN "idle" ELSE "lost"
    BY <1>8 DEF Restart, storeVars, historyVars
  <2> QED  BY <2>1 DEF ReportInv, NothingForgotten, Settled, Provisioning
<1>9. CASE UNCHANGED vars
  BY <1>9, ReportFrame DEF vars, storeVars
<1> QED  BY <1>1, <1>2, <1>3, <1>4, <1>5, <1>6, <1>7, <1>8, <1>9 DEF Next

\* A run in the history with a test result has handed every VM it created, seed
\* VMs included, to on_vm_created: only runs that end in an error leave strays.
THEOREM ReportCorrect == Spec => []ReportedRunRegisteredAll
<1>1. Init => ReportInv
  BY DEF Init, StoreInit, WorkerInit, ReportInv, NothingForgotten
<1>2. TypeOK /\ ReportInv /\ [Next]_vars => ReportInv'
  BY ReportNext
<1>3. ReportInv => ReportedRunRegisteredAll
  BY DEF ReportInv, NothingForgotten, ReportedRunRegisteredAll
<1> QED  BY <1>1, <1>2, <1>3, TypeCorrect, PTL DEF Spec
-----------------------------------------------------------------------------
(* OutcomesAgree is about two writes of a worker, to the database and to   *)
(* _runs, and between them the code to be published is a local of it.      *)

\* The status that a return code goes with.
Matches(r, c) ==
  \/ c = 0 /\ runrow[r] = (IF cfg[r].udp THEN "FAIL" ELSE "PASS")
  \/ c = 1 /\ runrow[r] = "FAIL"
  \/ c \in 2..5 /\ runrow[r] = "error"

\* The code is published last, and from the moment the status is stored the code
\* that the worker holds agrees with it.
Consistent(r) ==
  /\ pc[r] # "done" => returncode[r] = NoCode
  /\ pc[r] = "done" => Deleted(r) \/ Matches(r, returncode[r])
  /\ pc[r] \in {"mark", "rc"} => Deleted(r) \/ Matches(r, rc[r])
  /\ pc[r] = "cancelclean" => rc[r] = 5
  /\ pc[r] = "error" => rc[r] \in 2..5

\* The inductive invariant.
OutcomeInv == \A r \in Runs : Consistent(r)

\* The types that the outcome of a worker depends on.
OutcomeTypes ==
  /\ WorkerTypes
  /\ rc \in [Runs -> 0..5] /\ returncode \in [Runs -> {NoCode} \cup (0..5)]
  /\ verdict \in [Runs -> {"PASS", "FAIL"}]

\* A step of a worker keeps it.
LEMMA OutcomeWork ==
  ASSUME NEW r \in Runs, OutcomeTypes, OutcomeInv, WorkerStep(r)
  PROVE  OutcomeInv'
<1> USE WorkerAssumption DEF OutcomeTypes, WorkerTypes, OutcomeInv, Consistent, Matches, Deleted,
        Pc, ActivePc, Goto, storeVars, requestVars, threadVars, cleanVars, testVars, historyVars
<1>1. ASSUME Prepare(r) PROVE OutcomeInv'
  BY <1>1 DEF Prepare, ProvisionPcs
<1>2. ASSUME BeginPhase(r) PROVE OutcomeInv'
  BY <1>2 DEF BeginPhase, MorePhases, ProvisionPcs
<1>3. ASSUME EndPhases(r) PROVE OutcomeInv'
  BY <1>3 DEF EndPhases
<1>4. ASSUME NEW m \in Vms, DeploySeed(r, m) PROVE OutcomeInv'
  BY <1>4 DEF DeploySeed, NewVm, Raise
<1>5. ASSUME NEW m \in Vms, CreateVm(r, m) PROVE OutcomeInv'
  BY <1>5 DEF CreateVm, NewVm, Raise
<1>6. ASSUME NEW i \in Isos, RegisterIso(r, i) PROVE OutcomeInv'
  BY <1>6 DEF RegisterIso, Persist, Raise
<1>7. ASSUME ProbeSubnet(r) PROVE OutcomeInv'
  BY <1>7 DEF ProbeSubnet
<1>8. ASSUME NEW m \in fresh[r], RegisterVm(r, m) PROVE OutcomeInv'
  BY <1>8 DEF RegisterVm, Record, Persist
<1>9. ASSUME NEW m \in seeds[r], RegisterSeed(r, m) PROVE OutcomeInv'
  BY <1>9 DEF RegisterSeed, Record, Persist
<1>10. ASSUME NextSubnet(r) PROVE OutcomeInv'
  BY <1>10 DEF NextSubnet
<1>11. ASSUME ReturnInstances(r) PROVE OutcomeInv'
  BY <1>11 DEF ReturnInstances, AllRecorded
<1>12. ASSUME NEW v \in {"PASS", "FAIL"}, RunChecks(r, v) PROVE OutcomeInv'
  BY <1>12 DEF RunChecks, ClassicChecks, PhaseChecks, Judge
<1>13. ASSUME NEW m \in todo[r], DestroyVm(r, m) PROVE OutcomeInv'
  BY <1>13 DEF DestroyVm, CleanupPc
<1>14. ASSUME CleanupBreaks(r) PROVE OutcomeInv'
  BY <1>14 DEF CleanupBreaks, CleanupPc
<1>15. ASSUME PruneRegistry(r) PROVE OutcomeInv'
  BY <1>15 DEF PruneRegistry, Persist
<1>16. ASSUME CleanIsos(r) PROVE OutcomeInv'
  BY <1>16 DEF CleanIsos, Persist
<1>17. ASSUME FinishRun(r) PROVE OutcomeInv'
  BY <1>17 DEF FinishRun, FinalStatus
<1>18. ASSUME MarkRunCleaned(r) PROVE OutcomeInv'
  BY <1>18 DEF MarkRunCleaned
<1>19. ASSUME CancelNoticed(r) PROVE OutcomeInv'
  BY <1>19 DEF CancelNoticed, CancelPc, CancelDestroys
<1>20. ASSUME CancelCleanupDone(r) PROVE OutcomeInv'
  BY <1>20 DEF CancelCleanupDone
<1>21. ASSUME WorkerRaises(r) PROVE OutcomeInv'
  BY <1>21 DEF WorkerRaises, Raise, RaisePc
<1>22. ASSUME RecordError(r) PROVE OutcomeInv'
  BY <1>22 DEF RecordError
<1>23. ASSUME PublishReturncode(r) PROVE OutcomeInv'
  BY <1>23 DEF PublishReturncode, EndThreads
<1> QED
  <2> HIDE DEF OutcomeInv
  <2> QED  BY <1>1, <1>2, <1>3, <1>4, <1>5, <1>6, <1>7, <1>8, <1>9, <1>10, <1>11, <1>12,
              <1>13, <1>14, <1>15, <1>16, <1>17, <1>18, <1>19, <1>20, <1>21, <1>22,
              <1>23 DEF WorkerStep

\* So does a step that leaves the workers and the status of the runs alone.
LEMMA OutcomeFrame ==
  ASSUME OutcomeInv, UNCHANGED <<workerVars, runrow>>
  PROVE  OutcomeInv'
BY DEF OutcomeInv, Consistent, Matches, Deleted, workerVars, requestVars

\* OutcomeTypes is part of the type invariant.
LEMMA OutcomeTypesFromTypeOK == TypeOK => OutcomeTypes
BY TypesFromTypeOK DEF TypeOK, WorkerTypeOK, OutcomeTypes

\* Every step of the system keeps it.
LEMMA OutcomeNext ==
  ASSUME TypeOK, OutcomeInv, [Next]_vars
  PROVE  OutcomeInv'
<1>0. OutcomeTypes
  BY OutcomeTypesFromTypeOK
<1>1. ASSUME NEW r \in Runs, Start(r) PROVE OutcomeInv'
  BY <1>0, <1>1 DEF Start, StartRun, Goto, OutcomeTypes, WorkerTypes, OutcomeInv, Consistent,
     Matches, Deleted
<1>2. ASSUME NEW r \in Runs, Cancel(r) PROVE OutcomeInv'
  BY <1>2 DEF Cancel, CancelRun, OutcomeInv, Consistent, Matches, Deleted, storeVars,
     requestVars
<1>3. ASSUME NEW r \in Runs, Work(r) PROVE OutcomeInv'
  BY <1>0, <1>3, OutcomeWork DEF Work
<1>4. ASSUME NEW r \in Runs, DeleteHistory(r) PROVE OutcomeInv'
  BY <1>0, <1>4 DEF DeleteHistory, ApiDeleteHistory, OutcomeTypes, WorkerTypes, OutcomeInv,
     Consistent, Matches, Deleted, workerVars, requestVars
<1>5. ASSUME NEW h \in Handlers, NEW r \in Runs, CleanupRun(h, r) PROVE OutcomeInv'
  BY <1>5, OutcomeFrame DEF CleanupRun, ApiCleanupRun, storeVars
<1>6. ASSUME NEW h \in Handlers, CleanupAll(h) PROVE OutcomeInv'
  BY <1>6, OutcomeFrame DEF CleanupAll, ApiCleanupAll, storeVars
<1>7. ASSUME NEW h \in Handlers, Handle(h) PROVE OutcomeInv'
  BY <1>7, OutcomeFrame, HandlersOnlyDestroy DEF Handle
<1>8. ASSUME Restart PROVE OutcomeInv'
  <2>1. \A q \in Runs : pc'[q] = (IF pc[q] = "idle" THEN "idle" ELSE "lost")
                        /\ returncode'[q] = NoCode
    BY <1>8 DEF Restart
  <2> QED  BY <2>1 DEF OutcomeInv, Consistent
<1>9. CASE UNCHANGED vars
  BY <1>9, OutcomeFrame DEF vars, storeVars
<1> QED  BY <1>1, <1>2, <1>3, <1>4, <1>5, <1>6, <1>7, <1>8, <1>9 DEF Next

\* A run whose stream ends with an error code is an error in the history and no other
\* is; without a UDP rule, the code is 0 where the history says PASS and 1 where it says
\* FAIL; and the status is stored before the code is published, whatever comes meanwhile.
THEOREM OutcomesCorrect == Spec => []OutcomesAgree
<1>1. Init => OutcomeInv
  BY DEF Init, WorkerInit, OutcomeInv, Consistent
<1>2. TypeOK /\ OutcomeInv /\ [Next]_vars => OutcomeInv'
  BY OutcomeNext
<1>3. OutcomeInv => OutcomesAgree
  <2> SUFFICES ASSUME OutcomeInv, NEW r \in Runs, ~Deleted(r), returncode[r] # NoCode
               PROVE  /\ returncode[r] \in 2..5 <=> runrow[r] = "error"
                      /\ ~cfg[r].udp => /\ returncode[r] = 0 <=> runrow[r] = "PASS"
                                        /\ returncode[r] = 1 <=> runrow[r] = "FAIL"
    BY DEF OutcomesAgree
  <2>1. Matches(r, returncode[r])
    BY DEF OutcomeInv, Consistent
  <2> QED  BY <2>1 DEF Matches
<1> QED  BY <1>1, <1>2, <1>3, TypeCorrect, PTL DEF Spec

-----------------------------------------------------------------------------
(* RetainedForTroubleshooting relates what the worker destroyed over all   *)
(* its provisioning calls to what the last checks ran on.  The latter is   *)
(* untouched until a clean-up of it begins, which the outcomes that keep   *)
(* the VMs never let begin.                                                *)

\* Nothing of what the last checks ran on was destroyed.
Untouched(r) == inst[r] \cap destroyed[r] = {}

\* A failure of this run keeps its VMs.
KeepsOnFailure(r) == ~cfg[r].cleanupOnFailure /\ (cfg[r].phased => ~intra[r])

\* A cancellation of this run keeps its VMs.
KeepsOnCancel(r) == ~cfg[r].cleanupOnFailure /\ ~cfg[r].phased

\* Up to the checks the VMs at hand are the worker's and none was destroyed.
UntouchedSoFar(r) ==
  /\ destroyed[r] \subseteq created[r]
  /\ pc[r] \in {"idle", "init"} => inst[r] = {} /\ verdict[r] = "PASS"
  /\ pc[r] \in {"idle", "init", "phase", "test", "cleanup"} => seeds[r] = {} /\ fresh[r] = {}
  /\ pc[r] \in Provisioning \cup {"test"} =>
       (inst[r] \cup seeds[r] \cup fresh[r]) \cap destroyed[r] = {}
  /\ pc[r] = "phase" => cfg[r].phased /\ verdict[r] = "PASS"

\* What a clean-up on the way to the result says about the result.
UntouchedAfter(r) ==
  /\ pc[r] = "cleanup" /\ KeepsOnFailure(r) => verdict[r] = "PASS"
  /\ pc[r] = "cancelclean" => cfg[r].cleanupOnFailure
  /\ pc[r] \in {"iso", "finish"} /\ verdict[r] = "FAIL" /\ KeepsOnFailure(r) => Untouched(r)
  /\ pc[r] = "mark" => rc[r] # 5
  /\ pc[r] \in {"mark", "rc"} /\ rc[r] = 1 /\ KeepsOnFailure(r) => Untouched(r)
  /\ pc[r] \in {"error", "rc"} /\ rc[r] = 5 /\ KeepsOnCancel(r) => Untouched(r)
  /\ pc[r] = "done" /\ returncode[r] = 1 /\ KeepsOnFailure(r) => Untouched(r)
  /\ pc[r] = "done" /\ returncode[r] = 5 /\ KeepsOnCancel(r) => Untouched(r)

\* The inductive invariant, beside MemoryInv and OutcomeInv.
RetainInv == \A r \in Runs : UntouchedSoFar(r) /\ UntouchedAfter(r)

\* The types that it depends on.
RetainTypes ==
  /\ OutcomeTypes
  /\ destroyed \in [Runs -> SUBSET Vms] /\ intra \in [Runs -> BOOLEAN]

\* A step of a worker keeps it.
LEMMA RetainWork ==
  ASSUME NEW r \in Runs, RetainTypes, MemoryInv, OutcomeInv, RetainInv, WorkerStep(r)
  PROVE  RetainInv'
<1>0. \A s \in Runs : Own(s) /\ Consistent(s)
  BY DEF MemoryInv, OutcomeInv
<1> USE <1>0, WorkerAssumption DEF RetainTypes, OutcomeTypes, WorkerTypes, RetainInv, UntouchedSoFar,
        UntouchedAfter, Untouched, KeepsOnFailure, KeepsOnCancel, Provisioning, Own, Consistent,
        Pc, ActivePc, Goto, storeVars, requestVars, threadVars, cleanVars, testVars, historyVars
<1>1. ASSUME Prepare(r) PROVE RetainInv'
  BY <1>1 DEF Prepare, ProvisionPcs
<1>2. ASSUME BeginPhase(r) PROVE RetainInv'
  BY <1>2 DEF BeginPhase, MorePhases, ProvisionPcs
<1>3. ASSUME EndPhases(r) PROVE RetainInv'
  BY <1>3 DEF EndPhases
<1>4. ASSUME NEW m \in Vms, DeploySeed(r, m) PROVE RetainInv'
  BY <1>4 DEF DeploySeed, NewVm, Raise, Used
<1>5. ASSUME NEW m \in Vms, CreateVm(r, m) PROVE RetainInv'
  BY <1>5 DEF CreateVm, NewVm, Raise, Used
<1>6. ASSUME NEW i \in Isos, RegisterIso(r, i) PROVE RetainInv'
  BY <1>6 DEF RegisterIso, Persist, Raise
<1>7. ASSUME ProbeSubnet(r) PROVE RetainInv'
  BY <1>7 DEF ProbeSubnet
<1>8. ASSUME NEW m \in fresh[r], RegisterVm(r, m) PROVE RetainInv'
  BY <1>8 DEF RegisterVm, Record, Persist
<1>9. ASSUME NEW m \in seeds[r], RegisterSeed(r, m) PROVE RetainInv'
  BY <1>9 DEF RegisterSeed, Record, Persist
<1>10. ASSUME NextSubnet(r) PROVE RetainInv'
  BY <1>10 DEF NextSubnet
<1>11. ASSUME ReturnInstances(r) PROVE RetainInv'
  BY <1>11 DEF ReturnInstances, AllRecorded
<1>12. ASSUME NEW v \in {"PASS", "FAIL"}, RunChecks(r, v) PROVE RetainInv'
  BY <1>12 DEF RunChecks, ClassicChecks, PhaseChecks, Judge
<1>13. ASSUME NEW m \in todo[r], DestroyVm(r, m) PROVE RetainInv'
  BY <1>13 DEF DestroyVm, CleanupPc, Destroy, Found
<1>14. ASSUME CleanupBreaks(r) PROVE RetainInv'
  BY <1>14 DEF CleanupBreaks, CleanupPc
<1>15. ASSUME PruneRegistry(r) PROVE RetainInv'
  BY <1>15 DEF PruneRegistry, Persist
<1>16. ASSUME CleanIsos(r) PROVE RetainInv'
  BY <1>16 DEF CleanIsos, Persist
<1>17. ASSUME FinishRun(r) PROVE RetainInv'
  BY <1>17 DEF FinishRun, FinalStatus
<1>18. ASSUME MarkRunCleaned(r) PROVE RetainInv'
  BY <1>18 DEF MarkRunCleaned
<1>19. ASSUME CancelNoticed(r) PROVE RetainInv'
  BY <1>19 DEF CancelNoticed, CancelPc, CancelDestroys
<1>20. ASSUME CancelCleanupDone(r) PROVE RetainInv'
  BY <1>20 DEF CancelCleanupDone
<1>21. ASSUME WorkerRaises(r) PROVE RetainInv'
  BY <1>21 DEF WorkerRaises, Raise, RaisePc
<1>22. ASSUME RecordError(r) PROVE RetainInv'
  BY <1>22 DEF RecordError
<1>23. ASSUME PublishReturncode(r) PROVE RetainInv'
  BY <1>23 DEF PublishReturncode, EndThreads
<1> QED
  <2> HIDE DEF RetainInv
  <2> QED  BY <1>1, <1>2, <1>3, <1>4, <1>5, <1>6, <1>7, <1>8, <1>9, <1>10, <1>11, <1>12,
              <1>13, <1>14, <1>15, <1>16, <1>17, <1>18, <1>19, <1>20, <1>21, <1>22,
              <1>23 DEF WorkerStep

\* So does a step that leaves the workers alone.
LEMMA RetainFrame ==
  ASSUME RetainInv, UNCHANGED workerVars
  PROVE  RetainInv'
BY DEF RetainInv, UntouchedSoFar, UntouchedAfter, Untouched, KeepsOnFailure, KeepsOnCancel,
   workerVars, requestVars, threadVars, testVars, historyVars

\* RetainTypes is part of the type invariant.
LEMMA RetainTypesFromTypeOK == TypeOK => RetainTypes
BY OutcomeTypesFromTypeOK DEF TypeOK, WorkerTypeOK, RetainTypes

\* Every step of the system keeps it.
LEMMA RetainNext ==
  ASSUME TypeOK, MemoryInv, OutcomeInv, RetainInv, [Next]_vars
  PROVE  RetainInv'
<1>0. RetainTypes
  BY RetainTypesFromTypeOK
<1>1. ASSUME NEW r \in Runs, Start(r) PROVE RetainInv'
  BY <1>0, <1>1 DEF Start, StartRun, Goto, RetainTypes, OutcomeTypes, WorkerTypes, RetainInv,
     UntouchedSoFar, UntouchedAfter, Untouched, KeepsOnFailure, KeepsOnCancel, Provisioning,
     threadVars, testVars, historyVars
<1>2. ASSUME NEW r \in Runs, Cancel(r) PROVE RetainInv'
  BY <1>2 DEF Cancel, CancelRun, RetainInv, UntouchedSoFar, UntouchedAfter, Untouched,
     KeepsOnFailure, KeepsOnCancel, requestVars, threadVars, testVars, historyVars
<1>3. ASSUME NEW r \in Runs, Work(r) PROVE RetainInv'
  BY <1>0, <1>3, RetainWork DEF Work
<1>4. ASSUME Restart PROVE RetainInv'
  <2>1. UNCHANGED <<inst, destroyed, created>>
        /\ \A q \in Runs : /\ pc'[q] = IF pc[q] = "idle" THEN "idle" ELSE "lost"
                           /\ seeds'[q] = {} /\ fresh'[q] = {} /\ verdict'[q] = "PASS"
    BY <1>4 DEF Restart, EndThreads, historyVars
  <2> QED
    BY <2>1 DEF RetainInv, UntouchedSoFar, UntouchedAfter, Untouched, Provisioning
<1>5. CASE UNCHANGED workerVars
  BY <1>5, RetainFrame
<1> QED
  BY <1>1, <1>2, <1>3, <1>4, <1>5
  DEF Next, DeleteHistory, CleanupRun, CleanupAll, Handle, vars

\* When the tests fail, or the run is cancelled, and the operator has not asked for
\* cleanup_on_failure, the worker has destroyed none of the VMs that the last
\* checks ran on: they are there to be looked at.
THEOREM RetainedCorrect == Spec => []RetainedForTroubleshooting
<1>1. Init => MemoryInv /\ OutcomeInv /\ RetainInv
  BY MemoryInit
  DEF Init, WorkerInit, OutcomeInv, Consistent, RetainInv, UntouchedSoFar, UntouchedAfter, Provisioning
<1>2. TypeOK /\ MemoryInv /\ OutcomeInv /\ RetainInv /\ [Next]_vars
      => MemoryInv' /\ OutcomeInv' /\ RetainInv'
  BY MemoryNext, OutcomeNext, RetainNext
<1>3. OutcomeInv /\ RetainInv => RetainedForTroubleshooting
  BY DEF OutcomeInv, Consistent, RetainInv, UntouchedAfter, Untouched, KeepsOnFailure,
     KeepsOnCancel, RetainedForTroubleshooting, NoCode
<1> QED  BY <1>1, <1>2, <1>3, TypeCorrect, PTL DEF Spec

-----------------------------------------------------------------------------
(* A handler writes back what it read, so the invariant has to say what    *)
(* the locals of a handler know about its run while other handlers work:   *)
(* the list read still covers the live VMs, and what the handler takes off *)
(* is gone.                                                                *)

\* The row of run r: a running worker writes it through.
RowCovers(r) ==
  /\ objrow[r].vms \subseteq created[r]
  /\ pc[r] = "idle" => objrow[r].vms = {} /\ ~objrow[r].present
  /\ Active(r) => ~Deleted(r) /\ objrow[r].vms = mem[r].vms
  /\ Deleted(r) \/ LiveRegistered(r) \subseteq objrow[r].vms

\* Positions at which a handler works on one run, on all of them, and on all of
\* them with the inventory listed.
OnRun  == {"nothing", "connect", "delete", "write", "status", "a-write", "a-status"}
OnAll  == {"a-connect", "a-delete", "a-runs", "a-write", "a-status"}
Listed == {"a-delete", "a-runs", "a-write", "a-status"}

\* What the locals of handler h know.
HandlerCovers(h) ==
  LET q == request[h]
      r == q.run
  IN  /\ q.pc \in OnRun => q.vms \subseteq created[r] /\ ~Active(r) /\ pc[r] # "idle"
      /\ q.pc \in {"connect", "delete", "write", "a-write"} =>
           Deleted(r) \/ LiveRegistered(r) \subseteq q.vms
      /\ q.pc = "delete" =>
           /\ q.todo \subseteq q.vms
           /\ (q.vms \ q.seen) \cap inventory = {}
           /\ (q.vms \ (q.todo \cup q.failed)) \cap inventory = {}
      /\ q.pc = "write" => (q.vms \ q.failed) \cap inventory = {}
      /\ q.pc \in OnAll => \A s \in Runs : ~Active(s) /\ (s \in q.tracked => pc[s] # "idle")
      /\ q.pc \in Listed => inventory \subseteq q.seen
      /\ q.pc = "a-delete" =>
           \A m \in inventory : HasPrefix(m, q.prefix) => m \in q.todo \cup q.failed
      /\ q.pc \in Listed \ {"a-delete"} =>
           \A m \in inventory : HasPrefix(m, q.prefix) => m \in q.failed

\* The inductive invariant, beside MemoryInv.
CoverInv == (\A r \in Runs : RowCovers(r)) /\ (\A h \in Handlers : HandlerCovers(h))

\* A step of a worker leaves the other runs alone and brings no old VM back.
LEMMA WorkerFootprint ==
  ASSUME NEW r \in Runs, TypeOK, WorkerStep(r)
  PROVE  /\ Active(r) /\ pc'[r] # "idle"
         /\ inventory' \cap Used \subseteq inventory
         /\ \A s \in Runs : created[s] \subseteq created'[s]
         /\ \A s \in Runs \ {r} :
              /\ pc'[s] = pc[s] /\ runrow'[s] = runrow[s] /\ objrow'[s] = objrow[s]
              /\ registered'[s] = registered[s] /\ created'[s] = created[s]
              /\ mem'[s] = mem[s]
<1> DEFINE P == /\ Active(r) /\ pc'[r] # "idle"
                /\ inventory' \cap Used \subseteq inventory
                /\ \A s \in Runs : created[s] \subseteq created'[s]
                /\ \A s \in Runs \ {r} :
                     /\ pc'[s] = pc[s] /\ runrow'[s] = runrow[s] /\ objrow'[s] = objrow[s]
                     /\ registered'[s] = registered[s] /\ created'[s] = created[s]
                     /\ mem'[s] = mem[s]
<1>0. WorkerTypes /\ objrow \in [Runs -> ObjectRow]
  BY TypesFromTypeOK DEF TypeOK, StoreTypeOK
<1> SUFFICES P
  OBVIOUS
<1> USE <1>0 DEF WorkerTypes, Active, ActivePc, Pc, Goto, storeVars, requestVars, threadVars,
        cleanVars, testVars, historyVars
<1>1. ASSUME Prepare(r) PROVE P
  BY <1>1 DEF Prepare, ProvisionPcs
<1>2. ASSUME BeginPhase(r) PROVE P
  BY <1>2 DEF BeginPhase, ProvisionPcs
<1>3. ASSUME EndPhases(r) PROVE P
  BY <1>3 DEF EndPhases
<1>4. ASSUME NEW m \in Vms, DeploySeed(r, m) PROVE P
  BY <1>4 DEF DeploySeed, NewVm, Raise, Used
<1>5. ASSUME NEW m \in Vms, CreateVm(r, m) PROVE P
  BY <1>5 DEF CreateVm, NewVm, Raise, Used
<1>6. ASSUME NEW i \in Isos, RegisterIso(r, i) PROVE P
  BY <1>6 DEF RegisterIso, Persist, Raise
<1>7. ASSUME ProbeSubnet(r) PROVE P
  BY <1>7 DEF ProbeSubnet
<1>8. ASSUME NEW m \in fresh[r], RegisterVm(r, m) PROVE P
  BY <1>8 DEF RegisterVm, Record, Persist
<1>9. ASSUME NEW m \in seeds[r], RegisterSeed(r, m) PROVE P
  BY <1>9 DEF RegisterSeed, Record, Persist
<1>10. ASSUME NextSubnet(r) PROVE P
  BY <1>10 DEF NextSubnet
<1>11. ASSUME ReturnInstances(r) PROVE P
  BY <1>11 DEF ReturnInstances
<1>12. ASSUME NEW v \in {"PASS", "FAIL"}, RunChecks(r, v) PROVE P
  BY <1>12 DEF RunChecks, ClassicChecks, PhaseChecks, Judge
<1>13. ASSUME NEW m \in todo[r], DestroyVm(r, m) PROVE P
  BY <1>13 DEF DestroyVm, Destroy, CleanupPc
<1>14. ASSUME CleanupBreaks(r) PROVE P
  BY <1>14 DEF CleanupBreaks, CleanupPc
<1>15. ASSUME PruneRegistry(r) PROVE P
  BY <1>15 DEF PruneRegistry, Persist
<1>16. ASSUME CleanIsos(r) PROVE P
  BY <1>16 DEF CleanIsos, Persist
<1>17. ASSUME FinishRun(r) PROVE P
  BY <1>17 DEF FinishRun
<1>18. ASSUME MarkRunCleaned(r) PROVE P
  BY <1>18 DEF MarkRunCleaned
<1>19. ASSUME CancelNoticed(r) PROVE P
  BY <1>19 DEF CancelNoticed, CancelPc
<1>20. ASSUME CancelCleanupDone(r) PROVE P
  BY <1>20 DEF CancelCleanupDone
<1>21. ASSUME WorkerRaises(r) PROVE P
  BY <1>21 DEF WorkerRaises, Raise, RaisePc
<1>22. ASSUME RecordError(r) PROVE P
  BY <1>22 DEF RecordError
<1>23. ASSUME PublishReturncode(r) PROVE P
  BY <1>23 DEF PublishReturncode, EndThreads
<1> QED
  <2> HIDE DEF P
  <2> QED  BY <1>1, <1>2, <1>3, <1>4, <1>5, <1>6, <1>7, <1>8, <1>9, <1>10, <1>11, <1>12,
              <1>13, <1>14, <1>15, <1>16, <1>17, <1>18, <1>19, <1>20, <1>21, <1>22,
              <1>23 DEF WorkerStep

\* _persist_registry makes the row list what the in-memory registry does.
LEMMA PersistWrites ==
  ASSUME NEW r \in Runs, objrow \in [Runs -> ObjectRow], Persist(r)
  PROVE  objrow'[r].vms = mem'[r].vms
BY DEF Persist, UpsertCreatedObjects, ObjectRow

\* The row of a running worker lists what its in-memory registry does.
LEMMA WorkerWritesThrough ==
  ASSUME NEW r \in Runs, TypeOK, objrow[r].vms = mem[r].vms, ~Deleted(r), WorkerStep(r)
  PROVE  /\ ~Deleted(r)'
         /\ Active(r)' => objrow'[r].vms = mem'[r].vms
         /\ ~Active(r)' => UNCHANGED <<inventory, objrow, registered, created>>
<1> DEFINE P == /\ ~Deleted(r)'
                /\ Active(r)' => objrow'[r].vms = mem'[r].vms
                /\ ~Active(r)' => UNCHANGED <<inventory, objrow, registered, created>>
<1>0. WorkerTypes /\ objrow \in [Runs -> ObjectRow]
  BY TypesFromTypeOK DEF TypeOK, StoreTypeOK
<1> SUFFICES P
  OBVIOUS
<1> USE <1>0 DEF WorkerTypes, Active, ActivePc, Deleted, Pc, Goto, storeVars, requestVars,
        threadVars, cleanVars, testVars, historyVars
<1>1. ASSUME Prepare(r) PROVE P
  BY <1>1 DEF Prepare, ProvisionPcs
<1>2. ASSUME BeginPhase(r) PROVE P
  BY <1>2 DEF BeginPhase, ProvisionPcs
<1>3. ASSUME EndPhases(r) PROVE P
  BY <1>3 DEF EndPhases
<1>4. ASSUME NEW m \in Vms, DeploySeed(r, m) PROVE P
  BY <1>4 DEF DeploySeed, NewVm, Raise
<1>5. ASSUME NEW m \in Vms, CreateVm(r, m) PROVE P
  BY <1>5 DEF CreateVm, NewVm, Raise
<1>6. ASSUME NEW i \in Isos, RegisterIso(r, i) PROVE P
  <2>1. pc[r] = "cluster" /\ pc'[r] \in {"cluster", "create", "error"} /\ UNCHANGED runrow
    BY <1>6 DEF RegisterIso, Raise
  <2>2. CASE Persist(r)
    BY <2>1, <2>2, PersistWrites
  <2>3. CASE UNCHANGED <<mem, objrow>>
    BY <2>1, <2>3
  <2> QED  BY <1>6, <2>2, <2>3 DEF RegisterIso
<1>7. ASSUME ProbeSubnet(r) PROVE P
  BY <1>7 DEF ProbeSubnet
<1>8. ASSUME NEW m \in fresh[r], RegisterVm(r, m) PROVE P
  BY <1>8 DEF RegisterVm, Record, Persist, UpsertCreatedObjects, ObjectRow
<1>9. ASSUME NEW m \in seeds[r], RegisterSeed(r, m) PROVE P
  BY <1>9 DEF RegisterSeed, Record, Persist, UpsertCreatedObjects, ObjectRow
<1>10. ASSUME NextSubnet(r) PROVE P
  BY <1>10 DEF NextSubnet
<1>11. ASSUME ReturnInstances(r) PROVE P
  BY <1>11 DEF ReturnInstances
<1>12. ASSUME NEW v \in {"PASS", "FAIL"}, RunChecks(r, v) PROVE P
  BY <1>12 DEF RunChecks, ClassicChecks, PhaseChecks, Judge
<1>13. ASSUME NEW m \in todo[r], DestroyVm(r, m) PROVE P
  BY <1>13 DEF DestroyVm, CleanupPc
<1>14. ASSUME CleanupBreaks(r) PROVE P
  BY <1>14 DEF CleanupBreaks, CleanupPc
<1>15. ASSUME PruneRegistry(r) PROVE P
  <2>1. CASE Persist(r)
    BY <1>15, <2>1, PersistWrites DEF PruneRegistry
  <2>2. CASE UNCHANGED <<mem, objrow>>
    BY <1>15, <2>2 DEF PruneRegistry
  <2> QED  BY <1>15, <2>1, <2>2 DEF PruneRegistry
<1>16. ASSUME CleanIsos(r) PROVE P
  <2>1. CASE Persist(r)
    BY <1>16, <2>1, PersistWrites DEF CleanIsos
  <2>2. CASE UNCHANGED <<mem, objrow>>
    BY <1>16, <2>2 DEF CleanIsos
  <2> QED  BY <1>16, <2>1, <2>2 DEF CleanIsos
<1>17. ASSUME FinishRun(r) PROVE P
  BY <1>17 DEF FinishRun, FinalStatus, TypeOK, WorkerTypeOK
<1>18. ASSUME MarkRunCleaned(r) PROVE P
  BY <1>18 DEF MarkRunCleaned, MarkCleaned, SetCleanupStatus, ObjectRow
<1>19. ASSUME CancelNoticed(r) PROVE P
  BY <1>19 DEF CancelNoticed, CancelPc
<1>20. ASSUME CancelCleanupDone(r) PROVE P
  BY <1>20 DEF CancelCleanupDone
<1>21. ASSUME WorkerRaises(r) PROVE P
  BY <1>21 DEF WorkerRaises, Raise, RaisePc
<1>22. ASSUME RecordError(r) PROVE P
  BY <1>22 DEF RecordError
<1>23. ASSUME PublishReturncode(r) PROVE P
  BY <1>23 DEF PublishReturncode, EndThreads
<1> QED
  <2> HIDE DEF P
  <2> QED  BY <1>1, <1>2, <1>3, <1>4, <1>5, <1>6, <1>7, <1>8, <1>9, <1>10, <1>11, <1>12,
              <1>13, <1>14, <1>15, <1>16, <1>17, <1>18, <1>19, <1>20, <1>21, <1>22,
              <1>23 DEF WorkerStep

\* A step that leaves the locals of h alone, brings no old VM back and does not
\* revive an ended run keeps what h knows.
LEMMA HandlerFrame ==
  ASSUME NEW h \in Handlers, TypeOK, MemoryInv, HandlerCovers(h),
         request'[h] = request[h],
         inventory' \cap Used \subseteq inventory,
         \A s \in Runs : created[s] \subseteq created'[s],
         \A s \in Runs : ~Active(s) /\ pc[s] # "idle" =>
           /\ ~Active(s)' /\ pc'[s] # "idle"
           /\ registered'[s] = registered[s] /\ (Deleted(s) => Deleted(s)'),
         request[h].pc \in OnAll =>
           /\ inventory' \subseteq inventory
           /\ \A s \in Runs : ~Active(s)' /\ (pc[s] # "idle" => pc'[s] # "idle")
  PROVE  HandlerCovers(h)'
<1> DEFINE q == request[h]
           r == q.run
<1>1. r \in Runs
  BY DEF TypeOK, ApiTypeOK, Request
<1>2. registered[r] \subseteq Used /\ created[r] \subseteq Used
  BY <1>1 DEF MemoryInv, Own, Used
<1>3. q.pc \in OnRun => q.vms \subseteq created'[r] /\ ~Active(r)' /\ pc'[r] # "idle"
  BY <1>1 DEF HandlerCovers
<1>4. q.pc \in {"connect", "delete", "write", "a-write"} =>
        Deleted(r)' \/ LiveRegistered(r)' \subseteq q.vms
  <2>1. q.pc \in {"connect", "delete", "write", "a-write"} => q.pc \in OnRun
    BY DEF OnRun
  <2> QED  BY <1>1, <1>2, <2>1 DEF HandlerCovers, LiveRegistered
<1>5. q.pc \in OnRun => \A S \in SUBSET q.vms : S \cap inventory = {} => S \cap inventory' = {}
  BY <1>2 DEF HandlerCovers
<1>6. q.pc \in {"delete", "write"} => q.pc \in OnRun
  BY DEF OnRun
<1>7. q.pc = "delete" =>
        /\ q.todo \subseteq q.vms
        /\ (q.vms \ q.seen) \cap inventory' = {}
        /\ (q.vms \ (q.todo \cup q.failed)) \cap inventory' = {}
  BY <1>5, <1>6 DEF HandlerCovers
<1>8. q.pc = "write" => (q.vms \ q.failed) \cap inventory' = {}
  BY <1>5, <1>6 DEF HandlerCovers
<1>9. Listed \subseteq OnAll /\ "a-delete" \in Listed
  BY DEF Listed, OnAll
<1>10. /\ q.pc \in OnAll => \A s \in Runs : ~Active(s)' /\ (s \in q.tracked => pc'[s] # "idle")
       /\ q.pc \in Listed => inventory' \subseteq q.seen
       /\ q.pc = "a-delete" =>
            \A m \in inventory' : HasPrefix(m, q.prefix) => m \in q.todo \cup q.failed
       /\ q.pc \in Listed \ {"a-delete"} =>
            \A m \in inventory' : HasPrefix(m, q.prefix) => m \in q.failed
  BY <1>9 DEF HandlerCovers
<1> QED  BY <1>3, <1>4, <1>7, <1>8, <1>10 DEF HandlerCovers, HasPrefix

\* A step of a worker keeps the invariant.
LEMMA CoverWork ==
  ASSUME NEW r \in Runs, TypeOK, MemoryInv, MemoryInv', CoverInv, Work(r)
  PROVE  CoverInv'
<1>1. WorkerStep(r) /\ UNCHANGED request
  BY DEF Work
<1>2. /\ Active(r) /\ pc'[r] # "idle"
      /\ inventory' \cap Used \subseteq inventory
      /\ \A s \in Runs : created[s] \subseteq created'[s]
      /\ \A s \in Runs \ {r} :
           /\ pc'[s] = pc[s] /\ runrow'[s] = runrow[s] /\ objrow'[s] = objrow[s]
           /\ registered'[s] = registered[s] /\ created'[s] = created[s]
           /\ mem'[s] = mem[s]
  BY <1>1, WorkerFootprint
<1>3. RowCovers(r)'
  <2>1. objrow[r].vms = mem[r].vms /\ ~Deleted(r) /\ RowCovers(r)
    BY <1>2 DEF CoverInv, RowCovers
  <2>2. /\ ~Deleted(r)'
        /\ Active(r)' => objrow'[r].vms = mem'[r].vms
        /\ ~Active(r)' => UNCHANGED <<inventory, objrow, registered, created>>
    BY <1>1, <2>1, WorkerWritesThrough
  <2>3. CASE Active(r)'
    BY <1>2, <2>2, <2>3 DEF RowCovers, MemoryInv, Own, MemoryCovers
  <2>4. CASE ~Active(r)'
    BY <1>2, <2>1, <2>2, <2>4 DEF RowCovers, LiveRegistered
  <2> QED  BY <2>3, <2>4
<1>4. ASSUME NEW s \in Runs \ {r} PROVE RowCovers(s)'
  <2>1. registered[s] \subseteq Used
    BY DEF MemoryInv, Own, Used
  <2>2. RowCovers(s)
    BY DEF CoverInv
  <2> QED  BY <1>2, <2>1, <2>2 DEF RowCovers, LiveRegistered, Active, Deleted
<1>5. ASSUME NEW h \in Handlers PROVE HandlerCovers(h)'
  <2>1. HandlerCovers(h)
    BY DEF CoverInv
  <2>2. request[h].pc \notin OnAll
    BY <1>2, <2>1 DEF HandlerCovers
  <2>3. \A s \in Runs : ~Active(s) /\ pc[s] # "idle" =>
           /\ ~Active(s)' /\ pc'[s] # "idle"
           /\ registered'[s] = registered[s] /\ (Deleted(s) => Deleted(s)')
    BY <1>2 DEF Active, Deleted
  <2> QED  BY <1>1, <1>2, <2>1, <2>2, <2>3, HandlerFrame
<1> QED  BY <1>3, <1>4, <1>5 DEF CoverInv

\* A handler step that leaves the lists of every row alone.
LEMMA RowsKept ==
  ASSUME \A r \in Runs : RowCovers(r), UNCHANGED <<workerVars, runrow>>,
         inventory' \subseteq inventory,
         \A r \in Runs : /\ objrow'[r].vms = objrow[r].vms
                         /\ pc[r] = "idle" => (objrow'[r].present => objrow[r].present)
  PROVE  \A r \in Runs : RowCovers(r)'
BY DEF RowCovers, LiveRegistered, Active, Deleted, workerVars, historyVars

\* set_cleanup_status leaves the lists alone.
LEMMA StatusKeepsLists ==
  ASSUME NEW r \in Runs, NEW s, objrow \in [Runs -> ObjectRow], WriteStatus(r, s)
  PROVE  \A t \in Runs : /\ objrow'[t].vms = objrow[t].vms
                         /\ t # r => (objrow'[t].present => objrow[t].present)
BY DEF WriteStatus, SetCleanupStatus, ObjectRow

\* A step of a handler keeps the part about the rows.
LEMMA RowsHandle ==
  ASSUME NEW h \in Handlers, TypeOK, CoverInv, Handle(h)
  PROVE  \A s \in Runs : RowCovers(s)'
<1>0. /\ request[h] \in Request /\ request[h].run \in Runs
      /\ objrow \in [Runs -> ObjectRow]
      /\ HandlerCovers(h) /\ \A s \in Runs : RowCovers(s)
  BY DEF CoverInv, TypeOK, ApiTypeOK, StoreTypeOK, Request
<1>a. UNCHANGED <<workerVars, runrow>> /\ inventory' \subseteq inventory
  BY HandlersOnlyDestroy DEF Handle
<1>1. ASSUME NothingToClean(h) PROVE \A s \in Runs : RowCovers(s)'
  <2>1. pc[request[h].run] # "idle"
    BY <1>0, <1>1 DEF NothingToClean, At, HandlerCovers, OnRun
  <2>2. \A t \in Runs : /\ objrow'[t].vms = objrow[t].vms
                        /\ t # request[h].run => (objrow'[t].present => objrow[t].present)
    BY <1>0, <1>1, StatusKeepsLists DEF NothingToClean
  <2>3. ASSUME NEW t \in Runs PROVE RowCovers(t)'
    <3>1. RowCovers(t) /\ UNCHANGED <<pc, mem, registered, created, runrow>>
      BY <1>0, <1>a DEF workerVars, historyVars
    <3>2. /\ objrow'[t].vms = objrow[t].vms
          /\ pc[t] = "idle" => (objrow'[t].present => objrow[t].present)
      BY <2>1, <2>2
    <3> QED  BY <1>a, <3>1, <3>2 DEF RowCovers, LiveRegistered, Active, Deleted
  <2> QED  BY <2>3
<1>2. ASSUME ListVms(h) PROVE \A s \in Runs : RowCovers(s)'
  BY <1>0, <1>a, <1>2, RowsKept DEF ListVms, storeVars
<1>3. ASSUME NEW m \in request[h].todo, SkipVm(h, m) PROVE \A s \in Runs : RowCovers(s)'
  BY <1>0, <1>a, <1>3, RowsKept DEF SkipVm, storeVars
<1>4. ASSUME NEW m \in request[h].todo, DeleteRunVm(h, m) PROVE \A s \in Runs : RowCovers(s)'
  BY <1>0, <1>a, <1>4, RowsKept DEF DeleteRunVm, storeVars
<1>5. ASSUME NEW m \in request[h].todo, DeletePrefixedVm(h, m) PROVE \A s \in Runs : RowCovers(s)'
  BY <1>0, <1>a, <1>5, RowsKept DEF DeletePrefixedVm, storeVars
<1>6. ASSUME DeleteMeetsGoneVm(h) PROVE \A s \in Runs : RowCovers(s)'
  BY <1>0, <1>a, <1>6, RowsKept DEF DeleteMeetsGoneVm, storeVars
<1>7. ASSUME DeleteRunIsos(h) PROVE \A s \in Runs : RowCovers(s)'
  BY <1>0, <1>a, <1>7, RowsKept DEF DeleteRunIsos, storeVars
<1>8. ASSUME WriteBackRun(h) PROVE \A s \in Runs : RowCovers(s)'
  <2> DEFINE r == request[h].run
             vms == request[h].vms \cap request[h].failed
  <2>1. /\ vms \subseteq created[r] /\ ~Active(r) /\ pc[r] # "idle"
        /\ Deleted(r) \/ LiveRegistered(r) \subseteq vms
    BY <1>0, <1>8 DEF WriteBackRun, At, HandlerCovers, OnRun, LiveRegistered
  <2>2. objrow'[r].vms = vms /\ \A t \in Runs \ {r} : objrow'[t] = objrow[t]
    BY <1>0, <1>8 DEF WriteBackRun, UpsertCreatedObjects, ObjectRow
  <2> HIDE DEF r, vms
  <2> QED
    BY <1>0, <1>a, <2>1, <2>2 DEF RowCovers, LiveRegistered, Active, Deleted,
       workerVars, historyVars
<1>9. ASSUME StatusRun(h) PROVE \A s \in Runs : RowCovers(s)'
  <2>1. pc[request[h].run] # "idle"
    BY <1>0, <1>9 DEF StatusRun, At, HandlerCovers, OnRun
  <2>2. \A t \in Runs : /\ objrow'[t].vms = objrow[t].vms
                        /\ t # request[h].run => (objrow'[t].present => objrow[t].present)
    BY <1>0, <1>9, StatusKeepsLists DEF StatusRun
  <2>3. ASSUME NEW t \in Runs PROVE RowCovers(t)'
    <3>1. RowCovers(t) /\ UNCHANGED <<pc, mem, registered, created, runrow>>
      BY <1>0, <1>a DEF workerVars, historyVars
    <3>2. /\ objrow'[t].vms = objrow[t].vms
          /\ pc[t] = "idle" => (objrow'[t].present => objrow[t].present)
      BY <2>1, <2>2
    <3> QED  BY <1>a, <3>1, <3>2 DEF RowCovers, LiveRegistered, Active, Deleted
  <2> QED  BY <2>3
<1>10. ASSUME ListAllVms(h) PROVE \A s \in Runs : RowCovers(s)'
  BY <1>0, <1>a, <1>10, RowsKept DEF ListAllVms, storeVars
<1>11. ASSUME AllMeetsGoneVm(h) PROVE \A s \in Runs : RowCovers(s)'
  BY <1>0, <1>a, <1>11, RowsKept DEF AllMeetsGoneVm, storeVars
<1>12. ASSUME DeleteAllIsos(h) PROVE \A s \in Runs : RowCovers(s)'
  BY <1>0, <1>a, <1>12, RowsKept DEF DeleteAllIsos, storeVars
<1>13. ASSUME NEW r \in Runs, RereadRun(h, r) PROVE \A s \in Runs : RowCovers(s)'
  BY <1>0, <1>a, <1>13, RowsKept DEF RereadRun, storeVars
<1>14. ASSUME WriteBackAll(h) PROVE \A s \in Runs : RowCovers(s)'
  <2> DEFINE r == request[h].run
             vms == request[h].vms
  <2>1. /\ vms \subseteq created[r] /\ ~Active(r) /\ pc[r] # "idle"
        /\ Deleted(r) \/ LiveRegistered(r) \subseteq vms
    BY <1>0, <1>14 DEF WriteBackAll, At, HandlerCovers, OnRun, LiveRegistered
  <2>2. objrow'[r].vms = vms /\ \A t \in Runs \ {r} : objrow'[t] = objrow[t]
    BY <1>0, <1>14 DEF WriteBackAll, UpsertCreatedObjects, ObjectRow
  <2> HIDE DEF r, vms
  <2> QED
    BY <1>0, <1>a, <2>1, <2>2 DEF RowCovers, LiveRegistered, Active, Deleted,
       workerVars, historyVars
<1>15. ASSUME StatusAll(h) PROVE \A s \in Runs : RowCovers(s)'
  <2>1. pc[request[h].run] # "idle"
    BY <1>0, <1>15 DEF StatusAll, At, HandlerCovers, OnRun
  <2>2. \A t \in Runs : /\ objrow'[t].vms = objrow[t].vms
                        /\ t # request[h].run => (objrow'[t].present => objrow[t].present)
    BY <1>0, <1>15, StatusKeepsLists DEF StatusAll
  <2>3. ASSUME NEW t \in Runs PROVE RowCovers(t)'
    <3>1. RowCovers(t) /\ UNCHANGED <<pc, mem, registered, created, runrow>>
      BY <1>0, <1>a DEF workerVars, historyVars
    <3>2. /\ objrow'[t].vms = objrow[t].vms
          /\ pc[t] = "idle" => (objrow'[t].present => objrow[t].present)
      BY <2>1, <2>2
    <3> QED  BY <1>a, <3>1, <3>2 DEF RowCovers, LiveRegistered, Active, Deleted
  <2> QED  BY <2>3
<1>16. ASSUME AllDone(h) PROVE \A s \in Runs : RowCovers(s)'
  BY <1>0, <1>a, <1>16, RowsKept DEF AllDone, storeVars
<1> QED  BY <1>1, <1>2, <1>3, <1>4, <1>5, <1>6, <1>7, <1>8, <1>9, <1>10, <1>11, <1>12,
            <1>13, <1>14, <1>15, <1>16 DEF Handle, HandlerStep

\* A step of a handler leaves the locals of the others alone.
LEMMA OtherRequests ==
  ASSUME NEW h \in Handlers, TypeOK, HandlerStep(h)
  PROVE  \A g \in Handlers \ {h} : request'[g] = request[g]
BY DEF TypeOK, ApiTypeOK, HandlerStep, NothingToClean, ListVms, SkipVm, DeleteRunVm,
   DeletePrefixedVm, DeleteMeetsGoneVm, DeleteRunIsos, WriteBackRun, StatusRun, ListAllVms,
   AllMeetsGoneVm, DeleteAllIsos, RereadRun, WriteBackAll, StatusAll, AllDone, Continue, Reply,
   Abort

\* The locals of a handler that has answered claim nothing.
LEMMA ReplyCovers ==
  ASSUME NEW h \in Handlers, NEW s, TypeOK, Reply(h, s)
  PROVE  HandlerCovers(h)'
<1>1. request'[h].pc = "idle"
  BY DEF TypeOK, ApiTypeOK, Reply, Continue, NoRequest, NewRequest
<1> QED  BY <1>1 DEF HandlerCovers, OnRun, OnAll, Listed

\* A step of a handler keeps the part about itself.
LEMMA OwnRequest ==
  ASSUME NEW h \in Handlers, TypeOK, CoverInv, MemoryInv, Handle(h)
  PROVE  HandlerCovers(h)'
<1> DEFINE q == request[h]
<1>0. /\ q \in Request /\ HandlerCovers(h) /\ \A s \in Runs : RowCovers(s)
      /\ request \in [Handlers -> Request]
  BY DEF CoverInv, TypeOK, ApiTypeOK
<1>a. UNCHANGED <<workerVars, runrow>> /\ inventory' \subseteq inventory
  BY HandlersOnlyDestroy DEF Handle
<1>b. UNCHANGED <<pc, registered, created>>
  BY <1>a DEF workerVars, historyVars
<1> USE <1>0, <1>a, <1>b DEF At, Continue, HandlerCovers, OnRun, OnAll, Listed,
       LiveRegistered, Active, Deleted
<1>1. ASSUME NothingToClean(h) PROVE HandlerCovers(h)'
  BY <1>1, ReplyCovers DEF NothingToClean, Abort
<1>2. ASSUME ListVms(h) PROVE HandlerCovers(h)'
  <2>1. CASE Reply(h, "none")
    BY <2>1, ReplyCovers
  <2>2. CASE ~Reply(h, "none")
    <3>1. /\ request'[h].pc = "delete" /\ request'[h].seen = inventory
          /\ request'[h].todo = q.vms /\ request'[h].vms = q.vms /\ request'[h].run = q.run
          /\ q.pc = "connect" /\ UNCHANGED <<inventory, runrow>>
      <4>1. request'[h] = [q EXCEPT !.pc = "delete", !.seen = inventory, !.todo = q.vms]
        BY <1>2, <2>2 DEF ListVms, Abort
      <4>2. q.pc = "connect" /\ UNCHANGED <<inventory, runrow>>
        BY <1>2 DEF ListVms, storeVars
      <4> QED  BY <4>1, <4>2 DEF Request
    <3> QED  BY <3>1
  <2> QED  BY <2>1, <2>2
<1>3. ASSUME NEW m \in request[h].todo, SkipVm(h, m) PROVE HandlerCovers(h)'
  BY <1>3 DEF SkipVm, DeleteVm, KeepsEntry, DeleteOutcome, Request, HasPrefix
<1>4. ASSUME NEW m \in request[h].todo, DeleteRunVm(h, m) PROVE HandlerCovers(h)'
  BY <1>4 DEF DeleteRunVm, DeleteVm, KeepsEntry, DeleteOutcome, Request, HasPrefix
<1>5. ASSUME NEW m \in request[h].todo, DeletePrefixedVm(h, m) PROVE HandlerCovers(h)'
  BY <1>5 DEF DeletePrefixedVm, DeleteVm, KeepsEntry, DeleteOutcome, Request, HasPrefix
<1>6. ASSUME DeleteMeetsGoneVm(h) PROVE HandlerCovers(h)'
  BY <1>6, ReplyCovers DEF DeleteMeetsGoneVm, Abort
<1>7. ASSUME DeleteRunIsos(h) PROVE HandlerCovers(h)'
  BY <1>7 DEF DeleteRunIsos, DeleteVm, KeepsEntry, DeleteOutcome, Request, HasPrefix
<1>8. ASSUME WriteBackRun(h) PROVE HandlerCovers(h)'
  BY <1>8 DEF WriteBackRun, DeleteVm, KeepsEntry, DeleteOutcome, Request, HasPrefix
<1>9. ASSUME StatusRun(h) PROVE HandlerCovers(h)'
  BY <1>9, ReplyCovers DEF StatusRun, Abort
<1>10. ASSUME ListAllVms(h) PROVE HandlerCovers(h)'
  <2>1. CASE Reply(h, "none")
    BY <2>1, ReplyCovers
  <2>2. CASE ~Reply(h, "none")
    <3>1. /\ request'[h].pc = "a-delete" /\ request'[h].seen = inventory
          /\ request'[h].todo = {m \in inventory : HasPrefix(m, q.prefix)}
          /\ request'[h].tracked = q.tracked /\ request'[h].prefix = q.prefix
          /\ q.pc = "a-connect" /\ UNCHANGED <<inventory, runrow>>
      <4>1. request'[h] = [q EXCEPT !.pc = "a-delete", !.seen = inventory,
                                    !.todo = {m \in inventory : HasPrefix(m, q.prefix)}]
        BY <1>10, <2>2 DEF ListAllVms, Abort
      <4>2. q.pc = "a-connect" /\ UNCHANGED <<inventory, runrow>>
        BY <1>10 DEF ListAllVms, storeVars
      <4> QED  BY <4>1, <4>2 DEF Request
    <3> QED  BY <3>1
  <2> QED  BY <2>1, <2>2
<1>11. ASSUME AllMeetsGoneVm(h) PROVE HandlerCovers(h)'
  BY <1>11, ReplyCovers DEF AllMeetsGoneVm, Abort
<1>12. ASSUME DeleteAllIsos(h) PROVE HandlerCovers(h)'
  BY <1>12 DEF DeleteAllIsos, DeleteVm, KeepsEntry, DeleteOutcome, Request, HasPrefix
<1>13. ASSUME NEW r \in Runs, RereadRun(h, r) PROVE HandlerCovers(h)'
  <2> DEFINE vms == objrow[r].vms
  <2>1. /\ request'[h].pc = "a-write" /\ request'[h].run = r /\ request'[h].vms = vms \ GoneVms(q, vms)
        /\ request'[h].seen = q.seen /\ request'[h].prefix = q.prefix
        /\ request'[h].failed = q.failed /\ request'[h].tracked = q.tracked
    <3>1. PICK isos, touched, p :
            request'[h] = [q EXCEPT !.pc = "a-write", !.run = r, !.vms = vms \ GoneVms(q, vms),
                                    !.isos = isos, !.touched = touched, !.progress = p]
      BY <1>13 DEF RereadRun
    <3> QED
      BY <3>1 DEF Request
  <2>2. q.pc = "a-runs" /\ r \in q.tracked /\ UNCHANGED <<inventory, runrow>>
    BY <1>13 DEF RereadRun, storeVars
  <2>3. /\ \A s \in Runs : ~Active(s) /\ (s \in q.tracked => pc[s] # "idle")
        /\ inventory \subseteq q.seen /\ \A m \in inventory : HasPrefix(m, q.prefix) => m \in q.failed
    BY <2>2
  <2>4. vms \subseteq created[r] /\ (Deleted(r) \/ LiveRegistered(r) \subseteq vms)
    BY DEF RowCovers
  <2>5. GoneVms(q, vms) \cap inventory = {}
    BY <2>3 DEF GoneVms, Ours
  <2> HIDE DEF vms, q
  <2> QED
    BY <2>1, <2>2, <2>3, <2>4, <2>5
<1>14. ASSUME WriteBackAll(h) PROVE HandlerCovers(h)'
  BY <1>14 DEF WriteBackAll, DeleteVm, KeepsEntry, DeleteOutcome, Request, HasPrefix
<1>15. ASSUME StatusAll(h) PROVE HandlerCovers(h)'
  BY <1>15 DEF StatusAll, DeleteVm, KeepsEntry, DeleteOutcome, Request, HasPrefix
<1>16. ASSUME AllDone(h) PROVE HandlerCovers(h)'
  BY <1>16, ReplyCovers DEF AllDone, Abort
<1> QED
  <2> HIDE <1>0, <1>a, <1>b DEF HandlerCovers
  <2> QED  BY <1>1, <1>2, <1>3, <1>4, <1>5, <1>6, <1>7, <1>8, <1>9, <1>10, <1>11, <1>12,
              <1>13, <1>14, <1>15, <1>16 DEF Handle, HandlerStep

\* A step of a handler keeps the invariant.
LEMMA CoverHandle ==
  ASSUME NEW h \in Handlers, TypeOK, MemoryInv, CoverInv, Handle(h)
  PROVE  CoverInv'
<1>1. ASSUME NEW g \in Handlers PROVE HandlerCovers(g)'
  <2>1. CASE g = h
    BY <2>1, OwnRequest
  <2>2. CASE g # h
    <3>1. request'[g] = request[g] /\ HandlerCovers(g)
      BY <2>2, OtherRequests DEF Handle, CoverInv
    <3>2. inventory' \subseteq inventory /\ UNCHANGED <<pc, runrow, registered, created>>
      BY HandlersOnlyDestroy DEF Handle, workerVars, historyVars
    <3>3. request[g].pc \in OnAll => \A s \in Runs : ~Active(s)
      BY <3>1 DEF HandlerCovers
    <3> QED  BY <3>1, <3>2, <3>3, HandlerFrame DEF Active, Deleted
  <2> QED  BY <2>1, <2>2
<1> QED  BY <1>1, RowsHandle DEF CoverInv

\* It holds at first.
LEMMA CoverInit == Init => CoverInv
BY DEF Init, StoreInit, WorkerInit, ApiInit, CoverInv, RowCovers, HandlerCovers, NoRow,
   NoRequest,
   NewRequest, Active, ActivePc, Deleted, OnRun, OnAll, Listed

\* Starting a run keeps it, since no cleanup-all is in progress.
LEMMA CoverStart ==
  ASSUME NEW r \in Runs, Quiesced, TypeOK, MemoryInv, CoverInv, Start(r)
  PROVE  CoverInv'
<1>1. /\ pc[r] = "idle" /\ UNCHANGED <<inventory, objrow, mem, registered, created, request>>
      /\ runrow'[r] = "running" /\ pc'[r] \in {"init", "rejected"}
      /\ \A s \in Runs \ {r} : pc'[s] = pc[s] /\ runrow'[s] = runrow[s]
      /\ \A h \in Handlers : ~CleaningAll(h)
  BY DEF Start, StartRun, Goto, TypeOK, WorkerTypeOK, StoreTypeOK, historyVars
<1>2. ASSUME NEW s \in Runs PROVE RowCovers(s)'
  <2>1. RowCovers(s) /\ Own(s)
    BY DEF CoverInv, MemoryInv
  <2>2. CASE s # r
    BY <1>1, <2>1, <2>2 DEF RowCovers, LiveRegistered, Active, Deleted
  <2>3. CASE s = r
    <3>1. objrow[r].vms = {} /\ mem[r].vms = {} /\ registered[r] = {}
      BY <1>1, <2>1, <2>3 DEF RowCovers, Own
    <3> QED  BY <1>1, <2>3, <3>1 DEF RowCovers, LiveRegistered, Active, Deleted
  <2> QED  BY <2>2, <2>3
<1>3. ASSUME NEW h \in Handlers PROVE HandlerCovers(h)'
  <2>1. HandlerCovers(h) /\ request[h].pc \notin OnAll
    BY <1>1 DEF CoverInv, CleaningAll, OnAll
  <2>2. \A s \in Runs : ~Active(s) /\ pc[s] # "idle" =>
           /\ ~Active(s)' /\ pc'[s] # "idle"
           /\ registered'[s] = registered[s] /\ (Deleted(s) => Deleted(s)')
    BY <1>1 DEF Active, Deleted
  <2> QED  BY <1>1, <2>1, <2>2, HandlerFrame
<1> QED  BY <1>2, <1>3 DEF CoverInv

\* A step that leaves workers, rows, inventory and requests as they are, except
\* the request of h.
LEMMA CoverNewRequest ==
  ASSUME NEW h \in Handlers, TypeOK, CoverInv, UNCHANGED <<storeVars, workerVars>>,
         \A g \in Handlers \ {h} : request'[g] = request[g], HandlerCovers(h)'
  PROVE  CoverInv'
<1>1. UNCHANGED <<inventory, objrow, runrow, pc, mem, registered, created>>
  BY DEF storeVars, workerVars, historyVars
<1>2. \A s \in Runs : RowCovers(s)'
  BY <1>1 DEF CoverInv, RowCovers, LiveRegistered, Active, Deleted
<1>3. ASSUME NEW g \in Handlers \ {h} PROVE HandlerCovers(g)'
  <2>1. HandlerCovers(g) /\ request'[g] = request[g]
    BY DEF CoverInv
  <2> QED  BY <1>1, <2>1 DEF HandlerCovers, LiveRegistered, Active, Deleted
<1> QED  BY <1>2, <1>3 DEF CoverInv

\* Every step of the system keeps it.
LEMMA CoverNext ==
  ASSUME Quiesced, TypeOK, MemoryInv, MemoryInv', CoverInv, [Next]_vars
  PROVE  CoverInv'
<1>0. request \in [Handlers -> Request]
  BY DEF TypeOK, ApiTypeOK
<1>1. ASSUME NEW r \in Runs, Start(r) PROVE CoverInv'
  BY <1>1, CoverStart
<1>2. ASSUME NEW r \in Runs, Cancel(r) PROVE CoverInv'
  <2>1. UNCHANGED <<inventory, objrow, runrow, pc, mem, registered, created, request>>
    BY <1>2 DEF Cancel, CancelRun, storeVars, historyVars
  <2> QED
    BY <2>1 DEF CoverInv, RowCovers, HandlerCovers, LiveRegistered, Active, Deleted
<1>3. ASSUME NEW r \in Runs, Work(r) PROVE CoverInv'
  BY <1>3, CoverWork
<1>4. ASSUME NEW r \in Runs, DeleteHistory(r) PROVE CoverInv'
  <2>1. /\ ~Active(r) /\ UNCHANGED <<inventory, request, pc, mem, registered, created>>
        /\ runrow'[r] = "absent" /\ objrow'[r] = NoRow
        /\ \A s \in Runs \ {r} : runrow'[s] = runrow[s] /\ objrow'[s] = objrow[s]
    BY <1>4 DEF DeleteHistory, ApiDeleteHistory, workerVars, historyVars, TypeOK, StoreTypeOK
  <2>2. ASSUME NEW s \in Runs PROVE RowCovers(s)'
    BY <2>1 DEF CoverInv, RowCovers, LiveRegistered, Active, Deleted, NoRow
  <2>3. ASSUME NEW h \in Handlers PROVE HandlerCovers(h)'
    <3>1. \A s \in Runs : Deleted(s) => Deleted(s)'
      BY <2>1 DEF Deleted
    <3>2. HandlerCovers(h) /\ (request[h].pc \in OnAll => \A s \in Runs : ~Active(s))
      BY DEF CoverInv, HandlerCovers
    <3> QED  BY <2>1, <3>1, <3>2, HandlerFrame DEF Active
  <2> QED  BY <2>2, <2>3 DEF CoverInv
<1>5. ASSUME NEW h \in Handlers, NEW r \in Runs, CleanupRun(h, r) PROVE CoverInv'
  <2>1. /\ request'[h].pc \in {"nothing", "connect"}
        /\ request'[h].run = r /\ request'[h].vms = objrow[r].vms
        /\ \A g \in Handlers \ {h} : request'[g] = request[g]
    BY <1>0, <1>5 DEF CleanupRun, ApiCleanupRun, Continue, NewRequest
  <2>2. pc[r] # "idle" /\ ~Active(r) /\ UNCHANGED <<storeVars, workerVars>>
    BY <1>5 DEF CleanupRun, ApiCleanupRun
  <2>3. UNCHANGED <<inventory, runrow, pc, registered, created>> /\ RowCovers(r)
    BY <2>2 DEF storeVars, workerVars, historyVars, CoverInv
  <2>4. HandlerCovers(h)'
    BY <2>1, <2>2, <2>3
    DEF HandlerCovers, RowCovers, LiveRegistered, Active, Deleted, OnRun, OnAll, Listed
  <2> QED  BY <2>1, <2>2, <2>4, CoverNewRequest
<1>6. ASSUME NEW h \in Handlers, CleanupAll(h) PROVE CoverInv'
  <2>1. /\ request'[h].pc = "a-connect"
        /\ request'[h].tracked = {r \in Runs : objrow[r].present}
        /\ \A g \in Handlers \ {h} : request'[g] = request[g]
    BY <1>0, <1>6 DEF CleanupAll, ApiCleanupAll, Continue, NewRequest
  <2>2. (\A s \in Runs : ~Active(s)) /\ UNCHANGED <<storeVars, workerVars>>
    BY <1>6 DEF CleanupAll, ApiCleanupAll
  <2>3. UNCHANGED pc /\ \A s \in Runs : objrow[s].present => pc[s] # "idle"
    BY <2>2 DEF workerVars, CoverInv, RowCovers
  <2>4. HandlerCovers(h)'
    BY <2>1, <2>2, <2>3 DEF HandlerCovers, Active, OnRun, OnAll, Listed
  <2> QED  BY <2>1, <2>2, <2>4, CoverNewRequest
<1>7. ASSUME NEW h \in Handlers, Handle(h) PROVE CoverInv'
  BY <1>7, CoverHandle
<1>8. ASSUME Restart PROVE CoverInv'
  <2>1. /\ UNCHANGED <<inventory, objrow, runrow, registered, created>>
        /\ \A s \in Runs : pc'[s] = IF pc[s] = "idle" THEN "idle" ELSE "lost"
        /\ \A h \in Handlers : request'[h].pc = "idle"
    BY <1>8 DEF Restart, storeVars, historyVars, NoRequest, NewRequest
  <2>2. \A s \in Runs : RowCovers(s)'
    BY <2>1 DEF CoverInv, RowCovers, LiveRegistered, Active, ActivePc, Deleted
  <2>3. \A h \in Handlers : HandlerCovers(h)'
    BY <2>1 DEF HandlerCovers, OnRun, OnAll, Listed
  <2> QED  BY <2>2, <2>3 DEF CoverInv
<1>9. CASE UNCHANGED vars
  <2>1. UNCHANGED <<inventory, objrow, runrow, pc, mem, registered, created, request>>
    BY <1>9 DEF vars, storeVars, workerVars, historyVars
  <2> QED
    BY <2>1 DEF CoverInv, RowCovers, HandlerCovers, LiveRegistered, Active, Deleted
<1> QED  BY <1>1, <1>2, <1>3, <1>4, <1>5, <1>6, <1>7, <1>8, <1>9 DEF Next

\* When operators clean up and delete only runs that have ended, and start none
\* during a cleanup-all, a registered VM that is alive is in the created_objects
\* row of its run, however the clean-up handlers interleave.
THEOREM RegistryCorrect == Quiesced => (Spec => []RegistryCoversLive)
<1> SUFFICES ASSUME Quiesced PROVE Spec => []RegistryCoversLive
  OBVIOUS
<1>1. Init => MemoryInv /\ CoverInv
  BY MemoryInit, CoverInit
<1>2. TypeOK /\ MemoryInv /\ CoverInv /\ [Next]_vars => MemoryInv' /\ CoverInv'
  BY MemoryNext, CoverNext
<1>3. CoverInv => RegistryCoversLive
  BY DEF CoverInv, RowCovers, RegistryCoversLive
<1> QED  BY <1>1, <1>2, <1>3, TypeCorrect, PTL DEF Spec

-----------------------------------------------------------------------------
\* The inductive invariant: workers only ever destroy VMs that they created.
ForeignInv ==
  /\ Foreign \subseteq inventory
  /\ \A r \in Runs : created[r] \cap Foreign = {}

\* A step of a worker keeps it.
LEMMA ForeignWork ==
  ASSUME NEW r \in Runs, TypeOK, MemoryInv, ForeignInv, WorkerStep(r)
  PROVE  ForeignInv'
<1>0. /\ created \in [Runs -> SUBSET Vms] /\ created[r] \cap Foreign = {}
      /\ todo[r] \subseteq created[r]
  BY DEF TypeOK, WorkerTypeOK, MemoryInv, Own, ForeignInv
<1>1. ASSUME NEW m \in Vms, NewVm(r, m) PROVE ForeignInv'
  <2>1. Foreign \subseteq Used
    BY DEF Used
  <2>2. /\ m \notin Foreign /\ inventory' = inventory \cup {m}
        /\ created' = [created EXCEPT ![r] = @ \cup {m}]
    BY <1>1, <2>1 DEF NewVm
  <2> QED  BY <1>0, <2>2 DEF ForeignInv
<1>2. ASSUME NEW m \in todo[r], DestroyVm(r, m) PROVE ForeignInv'
  <2>1. Found(r, m) \cap Foreign = {}
    BY <1>0 DEF Found
  <2>2. UNCHANGED created /\ (UNCHANGED inventory \/ \E x \in Found(r, m) : inventory' = inventory \ {x})
    BY <1>2 DEF DestroyVm, Destroy
  <2> QED  BY <2>1, <2>2 DEF ForeignInv
<1>3. CASE UNCHANGED <<inventory, created>>
  BY <1>3 DEF ForeignInv
<1>4. \/ \E m \in Vms : NewVm(r, m)
      \/ \E m \in todo[r] : DestroyVm(r, m)
      \/ UNCHANGED <<inventory, created>>
  BY DEF WorkerStep, Prepare, BeginPhase, EndPhases, DeploySeed, CreateVm, RegisterIso,
     ProbeSubnet,
     RegisterVm, RegisterSeed, NextSubnet, ReturnInstances, RunChecks, ClassicChecks, PhaseChecks, Judge, CleanupBreaks,
     PruneRegistry, CleanIsos, FinishRun, MarkRunCleaned, CancelNoticed, CancelCleanupDone,
     WorkerRaises, RecordError, PublishReturncode, storeVars, historyVars
<1> QED  BY <1>1, <1>2, <1>3, <1>4

\* So does a step of a handler, thanks to the prefix check of delete_vm.
LEMMA ForeignHandle ==
  ASSUME NEW h \in Handlers, TypeOK, ForeignInv, HandlerStep(h), UNCHANGED created
  PROVE  ForeignInv'
<1>1. request[h].prefix \in Prefixes
  BY DEF TypeOK, ApiTypeOK, Request
<1>2. ASSUME NEW m, NEW o, DeleteVm(m, request[h].prefix, o) PROVE ForeignInv'
  <2>1. HasPrefix(m, request[h].prefix) => m \notin Foreign
    BY <1>1, ObjectsAssumption DEF HasPrefix
  <2> QED  BY <1>2, <2>1 DEF DeleteVm, ForeignInv
<1>3. CASE UNCHANGED inventory
  BY <1>3 DEF ForeignInv
<1>4. UNCHANGED inventory \/ \E m \in request[h].todo, o \in DeleteOutcome :
                               DeleteVm(m, request[h].prefix, o)
  BY DEF HandlerStep, NothingToClean, ListVms, SkipVm, DeleteRunVm, DeletePrefixedVm,
     DeleteMeetsGoneVm, DeleteRunIsos, WriteBackRun, StatusRun, ListAllVms, AllMeetsGoneVm,
     DeleteAllIsos, RereadRun, WriteBackAll, StatusAll, AllDone, storeVars
<1> QED  BY <1>2, <1>3, <1>4

\* No worker and no clean-up endpoint destroys a VM that no run created, whatever
\* vm_prefix is configured at the time, as long as such a VM does not carry it.
THEOREM ForeignCorrect == Spec => []ForeignVmsSurvive
<1>1. Init => MemoryInv /\ ForeignInv
  BY MemoryInit DEF Init, StoreInit, WorkerInit, ForeignInv
<1>2. TypeOK /\ MemoryInv /\ ForeignInv /\ [Next]_vars => MemoryInv' /\ ForeignInv'
  <2> SUFFICES ASSUME TypeOK, MemoryInv, ForeignInv, [Next]_vars PROVE ForeignInv'
    BY MemoryNext
  <2>1. ASSUME NEW r \in Runs, Work(r) PROVE ForeignInv'
    BY <2>1, ForeignWork DEF Work
  <2>2. ASSUME NEW h \in Handlers, Handle(h) PROVE ForeignInv'
    BY <2>2, ForeignHandle DEF Handle, workerVars, historyVars
  <2>3. CASE UNCHANGED <<inventory, created>>
    BY <2>3 DEF ForeignInv
  <2>4. \/ \E r \in Runs : Work(r)
        \/ \E h \in Handlers : Handle(h)
        \/ UNCHANGED <<inventory, created>>
    BY DEF Next, Start, StartRun, Cancel, CancelRun, DeleteHistory, ApiDeleteHistory,
       CleanupRun,
       ApiCleanupRun, CleanupAll, ApiCleanupAll, Restart, vars, storeVars, workerVars, historyVars
  <2> QED  BY <2>1, <2>2, <2>3, <2>4
<1>3. ForeignInv => ForeignVmsSurvive
  BY DEF ForeignInv, ForeignVmsSurvive
<1> QED  BY <1>1, <1>2, <1>3, TypeCorrect, PTL DEF Spec
-----------------------------------------------------------------------------
(* ShownCleanMeansGone and CleanupAnswerIsTrue: a row is marked as cleaned *)
(* up by a dry run, which creates nothing, or by a handler, for a list     *)
(* that it found empty or for one that it emptied.                         *)

\* GET /api/history reports run r as cleaned up.
ShownClean(r) == ShownCleanupState(objrow[r]) = "cleanup"

\* No registered VM of the run is left, or the run is no longer listed.
Gone(r) == Deleted(r) \/ LiveRegistered(r) = {}

Dry(r) == cfg[r].probe = "dry-run"

\* What the row of run r claims.
ClaimsTrue(r) ==
  /\ Dry(r) => created[r] = {} /\ pc[r] \notin Provisioning
  /\ pc[r] = "mark" => Dry(r)
  /\ ShownClean(r) => pc[r] # "idle" /\ (Dry(r) \/ (~Active(r) /\ Gone(r)))
  /\ objrow[r].vms \subseteq registered[r]

\* What handler h is about to claim.
HandlerTrue(h) ==
  LET q == request[h]
      r == q.run
  IN  /\ q.pc \in OnRun => q.vms \subseteq registered[r]
      /\ q.pc = "nothing" => Gone(r)
      /\ q.pc \in {"status", "a-status"} => Deleted(r) \/ LiveRegistered(r) \subseteq q.vms

\* The inductive invariant, beside MemoryInv and CoverInv.
ShownInv == (\A r \in Runs : ClaimsTrue(r)) /\ (\A h \in Handlers : HandlerTrue(h))

\* _persist_registry leaves the clean-up state of the row alone, and what it lists
\* counts as registered.
LEMMA PersistClaims ==
  ASSUME NEW r \in Runs, WorkerTypes, objrow \in [Runs -> ObjectRow], Persist(r)
  PROVE  /\ ShownClean(r)' => ShownClean(r)
         /\ objrow'[r].vms \subseteq registered'[r] /\ registered[r] \subseteq registered'[r]
BY DEF Persist, UpsertCreatedObjects, ObjectRow, ShownClean, ShownCleanupState, WorkerTypes

\* What a step of a worker does to its row and to what a dry run has.
LEMMA WorkerClaims ==
  ASSUME NEW r \in Runs, TypeOK, ClaimsTrue(r), WorkerStep(r)
  PROVE  /\ UNCHANGED cfg
         /\ ShownClean(r)' => ShownClean(r) \/ pc[r] = "mark"
         /\ Dry(r) => created'[r] = {} /\ pc'[r] \notin Provisioning
         /\ pc'[r] = "mark" => Dry(r)
         /\ objrow'[r].vms \subseteq registered'[r] /\ registered[r] \subseteq registered'[r]
<1> DEFINE P == /\ UNCHANGED cfg
                /\ ShownClean(r)' => ShownClean(r) \/ pc[r] = "mark"
                /\ Dry(r) => created'[r] = {} /\ pc'[r] \notin Provisioning
                /\ pc'[r] = "mark" => Dry(r)
                /\ objrow'[r].vms \subseteq registered'[r] /\ registered[r] \subseteq registered'[r]
<1>0. WorkerTypes /\ objrow \in [Runs -> ObjectRow]
  BY TypesFromTypeOK DEF TypeOK, StoreTypeOK
<1> SUFFICES P
  OBVIOUS
<1> USE <1>0 DEF WorkerTypes, ClaimsTrue, ShownClean, ShownCleanupState, Dry, Provisioning, Pc,
        ActivePc, Goto, storeVars, requestVars, threadVars, cleanVars, testVars, historyVars
<1>1. ASSUME Prepare(r) PROVE P
  BY <1>1 DEF Prepare, ProvisionPcs
<1>2. ASSUME BeginPhase(r) PROVE P
  BY <1>2 DEF BeginPhase, MorePhases, ProvisionPcs
<1>3. ASSUME EndPhases(r) PROVE P
  BY <1>3 DEF EndPhases
<1>4. ASSUME NEW m \in Vms, DeploySeed(r, m) PROVE P
  BY <1>4 DEF DeploySeed, NewVm, Raise
<1>5. ASSUME NEW m \in Vms, CreateVm(r, m) PROVE P
  BY <1>5 DEF CreateVm, NewVm, Raise
<1>6. ASSUME NEW i \in Isos, RegisterIso(r, i) PROVE P
  <2>1. UNCHANGED <<cfg, created>> /\ pc'[r] # "mark" /\ (Dry(r) => pc'[r] \notin Provisioning)
    BY <1>6 DEF RegisterIso, Raise
  <2>2. Persist(r) \/ UNCHANGED <<objrow, registered>>
    BY <1>6 DEF RegisterIso
  <2>3. CASE Persist(r)
    <3> HIDE DEF ShownClean
    <3> QED  BY <2>1, <2>3, PersistClaims
  <2>4. CASE UNCHANGED <<objrow, registered>>
    BY <2>1, <2>4
  <2> QED  BY <2>2, <2>3, <2>4
<1>7. ASSUME ProbeSubnet(r) PROVE P
  BY <1>7 DEF ProbeSubnet
<1>8. ASSUME NEW m \in fresh[r], RegisterVm(r, m) PROVE P
  BY <1>8 DEF RegisterVm, Record, Persist, UpsertCreatedObjects, ObjectRow
<1>9. ASSUME NEW m \in seeds[r], RegisterSeed(r, m) PROVE P
  BY <1>9 DEF RegisterSeed, Record, Persist, UpsertCreatedObjects, ObjectRow
<1>10. ASSUME NextSubnet(r) PROVE P
  BY <1>10 DEF NextSubnet
<1>11. ASSUME ReturnInstances(r) PROVE P
  BY <1>11 DEF ReturnInstances, AllRecorded
<1>12. ASSUME NEW v \in {"PASS", "FAIL"}, RunChecks(r, v) PROVE P
  BY <1>12 DEF RunChecks, ClassicChecks, PhaseChecks, Judge
<1>13. ASSUME NEW m \in todo[r], DestroyVm(r, m) PROVE P
  BY <1>13 DEF DestroyVm, CleanupPc
<1>14. ASSUME CleanupBreaks(r) PROVE P
  BY <1>14 DEF CleanupBreaks, CleanupPc
<1>15. ASSUME PruneRegistry(r) PROVE P
  <2>1. UNCHANGED <<cfg, created>> /\ pc'[r] # "mark" /\ (Dry(r) => pc'[r] \notin Provisioning)
    BY <1>15 DEF PruneRegistry
  <2>2. Persist(r) \/ UNCHANGED <<objrow, registered>>
    BY <1>15 DEF PruneRegistry
  <2>3. CASE Persist(r)
    <3> HIDE DEF ShownClean
    <3> QED  BY <2>1, <2>3, PersistClaims
  <2>4. CASE UNCHANGED <<objrow, registered>>
    BY <2>1, <2>4
  <2> QED  BY <2>2, <2>3, <2>4
<1>16. ASSUME CleanIsos(r) PROVE P
  <2>1. UNCHANGED <<cfg, created>> /\ pc'[r] # "mark" /\ (Dry(r) => pc'[r] \notin Provisioning)
    BY <1>16 DEF CleanIsos
  <2>2. Persist(r) \/ UNCHANGED <<objrow, registered>>
    BY <1>16 DEF CleanIsos
  <2>3. CASE Persist(r)
    <3> HIDE DEF ShownClean
    <3> QED  BY <2>1, <2>3, PersistClaims
  <2>4. CASE UNCHANGED <<objrow, registered>>
    BY <2>1, <2>4
  <2> QED  BY <2>2, <2>3, <2>4
<1>17. ASSUME FinishRun(r) PROVE P
  BY <1>17 DEF FinishRun, FinalStatus
<1>18. ASSUME MarkRunCleaned(r) PROVE P
  BY <1>18 DEF MarkRunCleaned, MarkCleaned, SetCleanupStatus, ObjectRow
<1>19. ASSUME CancelNoticed(r) PROVE P
  BY <1>19 DEF CancelNoticed, CancelPc, CancelDestroys
<1>20. ASSUME CancelCleanupDone(r) PROVE P
  BY <1>20 DEF CancelCleanupDone
<1>21. ASSUME WorkerRaises(r) PROVE P
  BY <1>21 DEF WorkerRaises, Raise, RaisePc
<1>22. ASSUME RecordError(r) PROVE P
  BY <1>22 DEF RecordError
<1>23. ASSUME PublishReturncode(r) PROVE P
  BY <1>23 DEF PublishReturncode, EndThreads
<1> QED
  <2> HIDE DEF P
  <2> QED  BY <1>1, <1>2, <1>3, <1>4, <1>5, <1>6, <1>7, <1>8, <1>9, <1>10, <1>11, <1>12,
              <1>13, <1>14, <1>15, <1>16, <1>17, <1>18, <1>19, <1>20, <1>21, <1>22,
              <1>23 DEF WorkerStep

\* A step of a worker keeps the claims of every row true.
LEMMA ClaimsWork ==
  ASSUME NEW r \in Runs, TypeOK, MemoryInv, CoverInv, ShownInv, WorkerStep(r)
  PROVE  \A s \in Runs : ClaimsTrue(s)'
<1>1. ClaimsTrue(r) /\ \A s \in Runs : ClaimsTrue(s)
  BY DEF ShownInv
<1>2. /\ UNCHANGED cfg
      /\ ShownClean(r)' => ShownClean(r) \/ pc[r] = "mark"
      /\ Dry(r) => created'[r] = {} /\ pc'[r] \notin Provisioning
      /\ pc'[r] = "mark" => Dry(r)
      /\ objrow'[r].vms \subseteq registered'[r]
  BY <1>1, WorkerClaims
<1>3. /\ Active(r) /\ pc'[r] # "idle"
      /\ inventory' \cap Used \subseteq inventory
      /\ \A s \in Runs \ {r} :
           /\ pc'[s] = pc[s] /\ runrow'[s] = runrow[s] /\ objrow'[s] = objrow[s]
           /\ registered'[s] = registered[s] /\ created'[s] = created[s]
  BY WorkerFootprint
<1>4. ClaimsTrue(r)'
  BY <1>1, <1>2, <1>3 DEF ClaimsTrue, Dry
<1>5. ASSUME NEW s \in Runs \ {r} PROVE ClaimsTrue(s)'
  <2>1. registered[s] \subseteq Used
    BY DEF MemoryInv, Own, Used
  <2>2. /\ Active(s)' = Active(s) /\ Dry(s)' = Dry(s) /\ ShownClean(s)' = ShownClean(s)
        /\ Deleted(s)' = Deleted(s) /\ LiveRegistered(s)' \subseteq LiveRegistered(s)
    BY <1>2, <1>3, <2>1 DEF Active, Dry, ShownClean, Deleted, LiveRegistered
  <2> QED  BY <1>1, <1>3, <2>2 DEF ClaimsTrue, Gone
<1> QED  BY <1>4, <1>5

\* A step that leaves the locals of h alone, brings no old VM back and takes nothing
\* off what a run has registered keeps true what h is about to claim.
LEMMA ClaimFrame ==
  ASSUME NEW h \in Handlers, TypeOK, MemoryInv, HandlerCovers(h), HandlerTrue(h),
         request'[h] = request[h], inventory' \cap Used \subseteq inventory,
         \A s \in Runs : ~Active(s) /\ pc[s] # "idle" =>
           registered'[s] = registered[s] /\ (Deleted(s) => Deleted(s)')
  PROVE  HandlerTrue(h)'
<1> DEFINE q == request[h]
           r == q.run
<1>1. r \in Runs
  BY DEF TypeOK, ApiTypeOK, Request
<1>2. registered[r] \subseteq Used
  BY <1>1 DEF MemoryInv, Own, Used
<1>3. q.pc \in OnRun => registered'[r] = registered[r] /\ (Deleted(r) => Deleted(r)')
  BY <1>1 DEF HandlerCovers
<1>4. {"nothing", "status", "a-status"} \subseteq OnRun
  BY DEF OnRun
<1>5. q.pc \in OnRun => LiveRegistered(r)' \subseteq LiveRegistered(r)
  BY <1>2, <1>3 DEF LiveRegistered
<1>6. Gone(r) /\ q.pc \in OnRun => Gone(r)'
  BY <1>3, <1>5 DEF Gone
<1>7. /\ q.pc \in OnRun => q.vms \subseteq registered'[r]
      /\ q.pc = "nothing" => Gone(r)'
      /\ q.pc \in {"status", "a-status"} => Deleted(r)' \/ LiveRegistered(r)' \subseteq q.vms
  BY <1>3, <1>4, <1>5, <1>6 DEF HandlerTrue
<1> QED  BY <1>7 DEF HandlerTrue

\* What a step of a handler does to the rows: write back a part of the list it holds
\* for its run, or write the state of its run.
LEMMA HandlerWrites ==
  ASSUME NEW h \in Handlers, HandlerStep(h)
  PROVE  LET q == request[h] IN
         \/ UNCHANGED objrow
         \/ /\ q.pc \in {"write", "a-write"}
            /\ \E vms \in SUBSET q.vms, isos \in {q.isos, q.isoFailed} :
                 objrow' = [objrow EXCEPT ![q.run] = UpsertCreatedObjects(@, vms, isos)]
         \/ q.pc = "nothing" /\ WriteStatus(q.run, "cleanup")
         \/ q.pc \in {"status", "a-status"} /\ WriteStatus(q.run, DerivedState(h))
<1> DEFINE q == request[h]
<1>1. CASE WriteBackRun(h)
  <2>1. /\ q.pc = "write"
        /\ objrow' = [objrow EXCEPT ![q.run] =
                        UpsertCreatedObjects(@, q.vms \cap q.failed, q.isoFailed)]
    BY <1>1 DEF WriteBackRun, At
  <2>2. q.vms \cap q.failed \in SUBSET q.vms
    OBVIOUS
  <2> QED  BY <2>1, <2>2
<1>2. CASE WriteBackAll(h)
  BY <1>2 DEF WriteBackAll, At
<1>3. CASE NothingToClean(h) \/ StatusRun(h) \/ StatusAll(h)
  BY <1>3 DEF NothingToClean, StatusRun, StatusAll, At
<1>4. CASE UNCHANGED objrow
  BY <1>4
<1>5. WriteBackRun(h) \/ WriteBackAll(h) \/ NothingToClean(h) \/ StatusRun(h) \/ StatusAll(h)
      \/ UNCHANGED objrow
  BY DEF HandlerStep, ListVms, SkipVm, DeleteRunVm, DeletePrefixedVm, DeleteMeetsGoneVm,
     DeleteRunIsos, ListAllVms, AllMeetsGoneVm, DeleteAllIsos, RereadRun, AllDone, storeVars
<1> QED  BY <1>1, <1>2, <1>3, <1>4, <1>5

\* set_cleanup_status makes a row shown as cleaned up when, and only when, the state
\* written is "cleanup".
LEMMA StatusShows ==
  ASSUME NEW r \in Runs, NEW s, objrow \in [Runs -> ObjectRow], WriteStatus(r, s)
  PROVE  /\ ShownClean(r)' => s = "cleanup"
         /\ objrow'[r].vms = objrow[r].vms
         /\ \A t \in Runs \ {r} : objrow'[t] = objrow[t]
BY DEF WriteStatus, SetCleanupStatus, ObjectRow, ShownClean, ShownCleanupState

\* The state derived is "cleanup" only when nothing is left in the list.
LEMMA DerivedCleanup ==
  ASSUME NEW h \in Handlers, DerivedState(h) = "cleanup"
  PROVE  request[h].vms = {}
BY DEF DerivedState, DeriveCleanupState

\* A step of a handler keeps the claims of every row true.
LEMMA ClaimsHandle ==
  ASSUME NEW h \in Handlers, TypeOK, CoverInv, ShownInv, Handle(h)
  PROVE  \A s \in Runs : ClaimsTrue(s)'
<1>r. PICK r \in Runs : r = request[h].run
  BY DEF TypeOK, ApiTypeOK, Request
<1>q. PICK q : q = request[h]
  OBVIOUS
<1>0. /\ objrow \in [Runs -> ObjectRow] /\ q = request[h] /\ r = q.run
      /\ HandlerCovers(h) /\ HandlerTrue(h) /\ \A s \in Runs : ClaimsTrue(s)
  BY <1>r, <1>q DEF TypeOK, StoreTypeOK, CoverInv, ShownInv
<1>1. /\ inventory' \subseteq inventory
      /\ UNCHANGED <<cfg, pc, runrow, registered, created>>
  BY HandlersOnlyDestroy DEF Handle, workerVars, requestVars, historyVars
<1>2. \A s \in Runs : /\ Active(s)' = Active(s) /\ Dry(s)' = Dry(s) /\ Deleted(s)' = Deleted(s)
                      /\ LiveRegistered(s)' \subseteq LiveRegistered(s)
  BY <1>1 DEF Active, Dry, Deleted, LiveRegistered
<1>3. ASSUME NEW s \in Runs, objrow'[s] = objrow[s] PROVE ClaimsTrue(s)'
  <2>1. ShownClean(s)' = ShownClean(s)
    BY <1>3 DEF ShownClean
  <2> QED  BY <1>0, <1>1, <1>2, <1>3, <2>1 DEF ClaimsTrue, Gone
<1>4. ASSUME q.pc \in OnRun, \A s \in Runs \ {r} : objrow'[s] = objrow[s],
             objrow'[r].vms \subseteq registered[r],
             ShownClean(r)' => ShownClean(r) \/ Gone(r)
      PROVE  \A s \in Runs : ClaimsTrue(s)'
  <2>1. ~Active(r) /\ pc[r] # "idle"
    BY <1>0, <1>4 DEF HandlerCovers
  <2>2. ClaimsTrue(r)'
    BY <1>0, <1>1, <1>2, <1>4, <2>1 DEF ClaimsTrue, Gone
  <2> QED  BY <1>3, <1>4, <2>2
<1>5. CASE UNCHANGED objrow
  BY <1>3, <1>5
<1>6. ASSUME q.pc \in {"write", "a-write"}, NEW vms \in SUBSET q.vms, NEW isos,
             objrow' = [objrow EXCEPT ![r] = UpsertCreatedObjects(@, vms, isos)]
      PROVE  \A s \in Runs : ClaimsTrue(s)'
  <2>1. q.pc \in OnRun /\ q.vms \subseteq registered[r]
    BY <1>0, <1>6 DEF HandlerTrue, OnRun
  <2>2. objrow'[r].vms = vms /\ (ShownClean(r)' => ShownClean(r))
        /\ \A s \in Runs \ {r} : objrow'[s] = objrow[s]
    BY <1>0, <1>6 DEF UpsertCreatedObjects, ObjectRow, ShownClean, ShownCleanupState
  <2> QED  BY <1>4, <2>1, <2>2
<1>7. ASSUME q.pc = "nothing", WriteStatus(r, "cleanup")
      PROVE  \A s \in Runs : ClaimsTrue(s)'
  <2>1. q.pc \in OnRun /\ Gone(r)
    BY <1>0, <1>7 DEF HandlerTrue, OnRun
  <2>2. objrow'[r].vms = objrow[r].vms /\ \A s \in Runs \ {r} : objrow'[s] = objrow[s]
    BY <1>0, <1>7, StatusShows
  <2>3. objrow[r].vms \subseteq registered[r]
    BY <1>0 DEF ClaimsTrue
  <2> QED  BY <1>4, <2>1, <2>2, <2>3
<1>8. ASSUME q.pc \in {"status", "a-status"}, WriteStatus(r, DerivedState(h))
      PROVE  \A s \in Runs : ClaimsTrue(s)'
  <2>1. q.pc \in OnRun /\ (Deleted(r) \/ LiveRegistered(r) \subseteq q.vms)
    BY <1>0, <1>8 DEF HandlerTrue, OnRun
  <2>2. /\ ShownClean(r)' => DerivedState(h) = "cleanup"
        /\ objrow'[r].vms = objrow[r].vms /\ \A s \in Runs \ {r} : objrow'[s] = objrow[s]
    BY <1>0, <1>8, StatusShows
  <2>3. objrow[r].vms \subseteq registered[r]
    BY <1>0 DEF ClaimsTrue
  <2>4. ShownClean(r)' => Gone(r)
    BY <1>0, <2>1, <2>2, DerivedCleanup DEF Gone
  <2> QED  BY <1>4, <2>1, <2>2, <2>3, <2>4
<1>9. HandlerStep(h)
  BY DEF Handle
<1> QED  BY <1>0, <1>5, <1>6, <1>7, <1>8, <1>9, HandlerWrites

\* The locals of a handler that has answered claim nothing.
LEMMA ReplyClaims ==
  ASSUME NEW h \in Handlers, NEW s, TypeOK, Reply(h, s)
  PROVE  HandlerTrue(h)'
<1>1. request'[h].pc = "idle"
  BY DEF TypeOK, ApiTypeOK, Reply, Continue, NoRequest, NewRequest
<1> QED  BY <1>1 DEF HandlerTrue, OnRun

\* A step of a handler keeps true what it is about to claim.
LEMMA OwnClaim ==
  ASSUME NEW h \in Handlers, TypeOK, CoverInv, ShownInv, Handle(h)
  PROVE  HandlerTrue(h)'
<1> DEFINE q == request[h]
<1>0. /\ q \in Request /\ HandlerTrue(h) /\ HandlerCovers(h)
      /\ \A s \in Runs : ClaimsTrue(s)
      /\ request \in [Handlers -> Request]
  BY DEF CoverInv, ShownInv, TypeOK, ApiTypeOK
<1>1. UNCHANGED registered
  BY DEF Handle, workerVars, historyVars
<1>2. ASSUME request'[h].run = q.run, request'[h].vms \subseteq q.vms,
             q.pc \in OnRun, request'[h].pc \notin {"nothing", "status", "a-status"}
      PROVE  HandlerTrue(h)'
  BY <1>0, <1>1, <1>2 DEF HandlerTrue
<1>3. ASSUME request'[h].pc \in {"a-connect", "a-delete", "a-runs"} PROVE HandlerTrue(h)'
  BY <1>3 DEF HandlerTrue, OnRun
<1>4. CASE \E s : Reply(h, s)
  BY <1>4, ReplyClaims
<1>5. ASSUME ListVms(h) \/ (\E m \in q.todo : SkipVm(h, m) \/ DeleteRunVm(h, m)) \/ DeleteRunIsos(h),
             ~Reply(h, "none")
      PROVE  HandlerTrue(h)'
  <2>1. q.pc \in {"connect", "delete"}
    BY <1>5 DEF ListVms, SkipVm, DeleteRunVm, DeleteRunIsos, At
  <2>2. /\ request'[h].run = q.run /\ request'[h].vms = q.vms
        /\ request'[h].pc \in {"delete", "write"}
    <3>1. CASE ListVms(h)
      <4>1. request'[h] = [q EXCEPT !.pc = "delete", !.seen = inventory, !.todo = q.vms]
        BY <1>0, <1>5, <3>1 DEF ListVms, Abort, Continue
      <4> QED  BY <1>0, <4>1 DEF Request
    <3>2. ASSUME NEW m \in q.todo, SkipVm(h, m)
          PROVE  /\ request'[h].run = q.run /\ request'[h].vms = q.vms
                 /\ request'[h].pc \in {"delete", "write"}
      BY <1>0, <3>2 DEF SkipVm, Continue, Request, At
    <3>3. ASSUME NEW m \in q.todo, DeleteRunVm(h, m)
          PROVE  /\ request'[h].run = q.run /\ request'[h].vms = q.vms
                 /\ request'[h].pc \in {"delete", "write"}
      BY <1>0, <3>3 DEF DeleteRunVm, Continue, Request, At
    <3>4. CASE DeleteRunIsos(h)
      BY <1>0, <3>4 DEF DeleteRunIsos, Continue, Request, At
    <3> QED  BY <1>5, <3>1, <3>2, <3>3, <3>4
  <2>3. q.pc \in OnRun
    BY <2>1 DEF OnRun
  <2> QED  BY <1>2, <2>2, <2>3
<1>6. ASSUME WriteBackRun(h) PROVE HandlerTrue(h)'
  <2>1. /\ request'[h].run = q.run /\ request'[h].vms = q.vms \cap q.failed
        /\ request'[h].pc = "status" /\ q.pc = "write"
        /\ UNCHANGED <<inventory, runrow>>
    BY <1>0, <1>6 DEF WriteBackRun, Continue, Request, At
  <2>2. /\ q.vms \subseteq registered[q.run]
        /\ Deleted(q.run) \/ LiveRegistered(q.run) \subseteq q.vms \cap q.failed
    BY <1>0, <2>1 DEF HandlerTrue, HandlerCovers, OnRun, LiveRegistered
  <2> QED  BY <1>1, <2>1, <2>2 DEF HandlerTrue, Deleted, LiveRegistered
<1>7. ASSUME WriteBackAll(h) PROVE HandlerTrue(h)'
  <2>1. /\ request'[h].run = q.run /\ request'[h].vms = q.vms
        /\ request'[h].pc = "a-status" /\ q.pc = "a-write"
        /\ UNCHANGED <<inventory, runrow>>
    BY <1>0, <1>7 DEF WriteBackAll, Continue, Request, At
  <2>2. /\ q.vms \subseteq registered[q.run]
        /\ Deleted(q.run) \/ LiveRegistered(q.run) \subseteq q.vms
    BY <1>0, <2>1 DEF HandlerTrue, HandlerCovers, OnRun
  <2> QED  BY <1>1, <2>1, <2>2 DEF HandlerTrue, Deleted, LiveRegistered
<1>8. ASSUME NEW r \in Runs, RereadRun(h, r) PROVE HandlerTrue(h)'
  <2>1. /\ request'[h].pc = "a-write" /\ request'[h].run = r
        /\ request'[h].vms \subseteq objrow[r].vms
    BY <1>0, <1>8 DEF RereadRun, Continue, Request
  <2>2. objrow[r].vms \subseteq registered[r]
    BY <1>0 DEF ClaimsTrue
  <2> QED  BY <1>1, <2>1, <2>2 DEF HandlerTrue
<1>9. ASSUME ListAllVms(h) \/ (\E m \in q.todo : DeletePrefixedVm(h, m)) \/ DeleteAllIsos(h) \/ StatusAll(h),
             ~Reply(h, "none")
      PROVE  request'[h].pc \in {"a-connect", "a-delete", "a-runs"}
  <2>1. CASE ListAllVms(h)
    BY <1>0, <1>9, <2>1, ZenonT(40) DEF ListAllVms, Abort, Continue, Request
  <2>2. ASSUME NEW m \in q.todo, DeletePrefixedVm(h, m)
        PROVE  request'[h].pc \in {"a-connect", "a-delete", "a-runs"}
    BY <1>0, <2>2 DEF DeletePrefixedVm, Continue, Request, At
  <2>3. CASE DeleteAllIsos(h)
    BY <1>0, <2>3 DEF DeleteAllIsos, Continue, Request
  <2>4. CASE StatusAll(h)
    BY <1>0, <2>4 DEF StatusAll, Continue, Request
  <2> QED  BY <1>9, <2>1, <2>2, <2>3, <2>4
<1>10. ASSUME NothingToClean(h) \/ StatusRun(h) \/ DeleteMeetsGoneVm(h) \/ AllMeetsGoneVm(h) \/ AllDone(h)
       PROVE  \E s : Reply(h, s)
  BY <1>10 DEF NothingToClean, StatusRun, DeleteMeetsGoneVm, AllMeetsGoneVm, AllDone, Abort
<1> QED
  <2>1. HandlerStep(h)
    BY DEF Handle
  <2>2. CASE Reply(h, "none")
    BY <2>2, ReplyClaims
  <2> QED
    BY <1>3, <1>4, <1>5, <1>6, <1>7, <1>8, <1>9, <1>10, <2>1, <2>2 DEF HandlerStep

\* A step of a handler keeps the invariant.
LEMMA ShownHandle ==
  ASSUME NEW h \in Handlers, TypeOK, MemoryInv, CoverInv, ShownInv, Handle(h)
  PROVE  ShownInv'
<1>1. ASSUME NEW g \in Handlers PROVE HandlerTrue(g)'
  <2>1. CASE g = h
    BY <2>1, OwnClaim
  <2>2. CASE g # h
    <3>1. request'[g] = request[g] /\ HandlerCovers(g) /\ HandlerTrue(g)
      BY <2>2, OtherRequests DEF Handle, CoverInv, ShownInv
    <3>2. inventory' \subseteq inventory /\ UNCHANGED <<runrow, registered>>
      BY HandlersOnlyDestroy DEF Handle, workerVars, historyVars
    <3> QED  BY <3>1, <3>2, ClaimFrame DEF Deleted
  <2> QED  BY <2>1, <2>2
<1> QED  BY <1>1, ClaimsHandle DEF ShownInv

\* It holds at first.
LEMMA ShownInit == Init => ShownInv
BY DEF Init, StoreInit, WorkerInit, ApiInit, ShownInv, ClaimsTrue, HandlerTrue, ShownClean,
   ShownCleanupState, NoRow, NoRequest, NewRequest, Provisioning, OnRun

\* A step that changes neither rows nor what the runs have, and of the requests only
\* that of h.
LEMMA ShownNewRequest ==
  ASSUME NEW h \in Handlers, ShownInv, HandlerTrue(h)',
         UNCHANGED <<cfg, pc, inventory, runrow, objrow, registered, created>>,
         \A g \in Handlers \ {h} : request'[g] = request[g]
  PROVE  ShownInv'
<1>1. \A s \in Runs : ClaimsTrue(s)'
  BY DEF ShownInv, ClaimsTrue, ShownClean, Dry, Gone, Active, Deleted, LiveRegistered
<1>2. ASSUME NEW g \in Handlers \ {h} PROVE HandlerTrue(g)'
  <2>1. HandlerTrue(g) /\ request'[g] = request[g]
    BY DEF ShownInv
  <2> QED  BY <2>1 DEF HandlerTrue, Gone, Deleted, LiveRegistered
<1> QED  BY <1>1, <1>2 DEF ShownInv

\* Every step of the system keeps it.
LEMMA ShownNext ==
  ASSUME Quiesced, TypeOK, MemoryInv, CoverInv, ShownInv, [Next]_vars
  PROVE  ShownInv'
<1>0. request \in [Handlers -> Request]
  BY DEF TypeOK, ApiTypeOK
<1>1. ASSUME NEW r \in Runs, Start(r) PROVE ShownInv'
  <2>1. /\ pc[r] = "idle"
        /\ UNCHANGED <<cfg, inventory, objrow, registered, created, request>>
        /\ pc'[r] \in {"init", "rejected"}
        /\ \A s \in Runs \ {r} : pc'[s] = pc[s] /\ runrow'[s] = runrow[s]
    BY <1>1 DEF Start, StartRun, Goto, TypeOK, WorkerTypeOK, StoreTypeOK, historyVars
  <2>2. ASSUME NEW s \in Runs PROVE ClaimsTrue(s)'
    <3>1. ClaimsTrue(s)
      BY DEF ShownInv
    <3>2. CASE s # r
      BY <2>1, <3>1, <3>2
      DEF ClaimsTrue, ShownClean, Dry, Gone, Active, Deleted, LiveRegistered
    <3>3. CASE s = r
      BY <2>1, <3>1, <3>3 DEF ClaimsTrue, ShownClean, Dry, Provisioning
    <3> QED  BY <3>2, <3>3
  <2>3. ASSUME NEW h \in Handlers PROVE HandlerTrue(h)'
    <3>1. HandlerCovers(h) /\ HandlerTrue(h)
      BY DEF CoverInv, ShownInv
    <3>2. \A s \in Runs : ~Active(s) /\ pc[s] # "idle" =>
             registered'[s] = registered[s] /\ (Deleted(s) => Deleted(s)')
      BY <2>1 DEF Deleted
    <3> QED  BY <2>1, <3>1, <3>2, ClaimFrame
  <2> QED  BY <2>2, <2>3 DEF ShownInv
<1>2. ASSUME NEW r \in Runs, Cancel(r) PROVE ShownInv'
  <2>1. UNCHANGED <<cfg, inventory, objrow, runrow, pc, registered, created, request>>
    BY <1>2 DEF Cancel, CancelRun, storeVars, requestVars, historyVars
  <2> QED
    BY <2>1 DEF ShownInv, ClaimsTrue, HandlerTrue, ShownClean, Dry, Gone, Active, Deleted,
       LiveRegistered
<1>3. ASSUME NEW r \in Runs, Work(r) PROVE ShownInv'
  <2>1. WorkerStep(r) /\ UNCHANGED request
    BY <1>3 DEF Work
  <2>2. /\ Active(r) /\ inventory' \cap Used \subseteq inventory
        /\ \A s \in Runs \ {r} : runrow'[s] = runrow[s] /\ registered'[s] = registered[s]
    BY <2>1, WorkerFootprint
  <2>3. ASSUME NEW h \in Handlers PROVE HandlerTrue(h)'
    <3>1. HandlerCovers(h) /\ HandlerTrue(h)
      BY DEF CoverInv, ShownInv
    <3> QED  BY <2>1, <2>2, <3>1, ClaimFrame DEF Deleted
  <2> QED  BY <2>1, <2>3, ClaimsWork DEF ShownInv
<1>4. ASSUME NEW r \in Runs, DeleteHistory(r) PROVE ShownInv'
  <2>1. /\ ~Active(r) /\ UNCHANGED <<cfg, inventory, request, pc, registered, created>>
        /\ runrow'[r] = "absent" /\ objrow'[r] = NoRow
        /\ \A s \in Runs \ {r} : runrow'[s] = runrow[s] /\ objrow'[s] = objrow[s]
    BY <1>4
    DEF DeleteHistory, ApiDeleteHistory, workerVars, requestVars, historyVars, TypeOK, StoreTypeOK
  <2>2. ASSUME NEW s \in Runs PROVE ClaimsTrue(s)'
    <3>1. ClaimsTrue(s)
      BY DEF ShownInv
    <3>2. CASE s # r
      BY <2>1, <3>1, <3>2
      DEF ClaimsTrue, ShownClean, Dry, Gone, Active, Deleted, LiveRegistered
    <3>3. CASE s = r
      BY <2>1, <3>1, <3>3 DEF ClaimsTrue, ShownClean, ShownCleanupState, Dry, NoRow
    <3> QED  BY <3>2, <3>3
  <2>3. ASSUME NEW h \in Handlers PROVE HandlerTrue(h)'
    <3>1. HandlerCovers(h) /\ HandlerTrue(h)
      BY DEF CoverInv, ShownInv
    <3>2. \A s \in Runs : Deleted(s) => Deleted(s)'
      BY <2>1 DEF Deleted
    <3> QED  BY <2>1, <3>1, <3>2, ClaimFrame
  <2> QED  BY <2>2, <2>3 DEF ShownInv
<1>5. ASSUME NEW h \in Handlers, NEW r \in Runs, CleanupRun(h, r) PROVE ShownInv'
  <2>1. /\ request'[h].pc \in {"nothing", "connect"}
        /\ request'[h].pc = "nothing" => objrow[r].cleaned \/ objrow[r].vms = {}
        /\ request'[h].run = r /\ request'[h].vms = objrow[r].vms
        /\ \A g \in Handlers \ {h} : request'[g] = request[g]
    <3> DEFINE C == \/ objrow[r].cleaned
                    \/ objrow[r].vms = {} /\ objrow[r].isos = {}
    <3>1. PICK p \in Prefixes :
            request' = [request EXCEPT ![h] =
              [NewRequest(IF C THEN "nothing" ELSE "connect", r, p)
                 EXCEPT !.vms = objrow[r].vms, !.isos = objrow[r].isos]]
      BY <1>5 DEF CleanupRun, ApiCleanupRun, Continue
    <3>2. C => objrow[r].cleaned \/ objrow[r].vms = {}
      OBVIOUS
    <3> HIDE DEF C
    <3> QED  BY <1>0, <3>1, <3>2 DEF NewRequest
  <2>2. UNCHANGED <<cfg, pc, inventory, runrow, objrow, registered, created>>
    BY <1>5 DEF CleanupRun, ApiCleanupRun, storeVars, workerVars, requestVars, historyVars
  <2>3. ClaimsTrue(r) /\ RowCovers(r) /\ Own(r)
    BY DEF ShownInv, CoverInv, MemoryInv
  <2>4. objrow[r].cleaned => Gone(r)
    BY <2>3 DEF ClaimsTrue, ShownClean, ShownCleanupState, Gone, LiveRegistered, Own
  <2>5. objrow[r].vms = {} => Gone(r)
    BY <2>3 DEF RowCovers, Gone
  <2>6. HandlerTrue(h)'
    BY <2>1, <2>2, <2>3, <2>4, <2>5
    DEF HandlerTrue, ClaimsTrue, Gone, Deleted, LiveRegistered
  <2> QED  BY <2>1, <2>2, <2>6, ShownNewRequest
<1>6. ASSUME NEW h \in Handlers, CleanupAll(h) PROVE ShownInv'
  <2>1. request'[h].pc = "a-connect" /\ \A g \in Handlers \ {h} : request'[g] = request[g]
    BY <1>0, <1>6 DEF CleanupAll, ApiCleanupAll, Continue, NewRequest
  <2>2. UNCHANGED <<cfg, pc, inventory, runrow, objrow, registered, created>>
    BY <1>6 DEF CleanupAll, ApiCleanupAll, storeVars, workerVars, requestVars, historyVars
  <2>3. HandlerTrue(h)'
    BY <2>1 DEF HandlerTrue, OnRun
  <2> QED  BY <2>1, <2>2, <2>3, ShownNewRequest
<1>7. ASSUME NEW h \in Handlers, Handle(h) PROVE ShownInv'
  BY <1>7, ShownHandle
<1>8. ASSUME Restart PROVE ShownInv'
  <2>1. /\ UNCHANGED <<cfg, inventory, objrow, runrow, registered, created>>
        /\ \A s \in Runs : pc'[s] = IF pc[s] = "idle" THEN "idle" ELSE "lost"
        /\ \A h \in Handlers : request'[h].pc = "idle"
    BY <1>8 DEF Restart, storeVars, requestVars, historyVars, NoRequest, NewRequest
  <2>2. ASSUME NEW s \in Runs PROVE ClaimsTrue(s)'
    <3>1. ClaimsTrue(s)
      BY DEF ShownInv
    <3> QED
      BY <2>1, <3>1 DEF ClaimsTrue, ShownClean, Dry, Gone, Active, ActivePc, Deleted,
         LiveRegistered, Provisioning
  <2>3. \A h \in Handlers : HandlerTrue(h)'
    BY <2>1 DEF HandlerTrue, OnRun
  <2> QED  BY <2>2, <2>3 DEF ShownInv
<1>9. CASE UNCHANGED vars
  <2>1. UNCHANGED <<cfg, inventory, objrow, runrow, pc, registered, created, request>>
    BY <1>9 DEF vars, storeVars, workerVars, requestVars, historyVars
  <2> QED
    BY <2>1 DEF ShownInv, ClaimsTrue, HandlerTrue, ShownClean, Dry, Gone, Active, Deleted,
       LiveRegistered
<1> QED  BY <1>1, <1>2, <1>3, <1>4, <1>5, <1>6, <1>7, <1>8, <1>9 DEF Next

\* With careful operators, a run that the history shows as cleaned up has no
\* registered VM left: the button it no longer offers would find nothing.
THEOREM ShownCleanCorrect == Quiesced => (Spec => []ShownCleanMeansGone)
<1> SUFFICES ASSUME Quiesced PROVE Spec => []ShownCleanMeansGone
  OBVIOUS
<1>1. Init => MemoryInv /\ CoverInv /\ ShownInv
  BY MemoryInit, CoverInit, ShownInit
<1>2. TypeOK /\ MemoryInv /\ CoverInv /\ ShownInv /\ [Next]_vars
      => MemoryInv' /\ CoverInv' /\ ShownInv'
  BY MemoryNext, CoverNext, ShownNext
<1>3. MemoryInv /\ ShownInv => ShownCleanMeansGone
  BY DEF MemoryInv, Own, ShownInv, ClaimsTrue, ShownClean, Gone, LiveRegistered,
     ShownCleanMeansGone
<1> QED  BY <1>1, <1>2, <1>3, TypeCorrect, PTL DEF Spec

\* One clean-up request is about to answer "cleanup" of its run.
AnswersCleanup(h) == request[h].reply = "none" /\ request'[h].reply = "cleanup"

\* A handler that answers "cleanup" has found or left nothing alive that the row of
\* its run lists.
LEMMA AnswerTrue ==
  ASSUME NEW h \in Handlers, TypeOK, ShownInv, Handle(h), AnswersCleanup(h),
         ~Deleted(request[h].run)
  PROVE  objrow'[request[h].run].vms \cap inventory' = {}
<1>r. PICK r \in Runs : r = request[h].run
  BY DEF TypeOK, ApiTypeOK, Request
<1>0. /\ objrow \in [Runs -> ObjectRow] /\ request \in [Handlers -> Request]
      /\ HandlerTrue(h) /\ ClaimsTrue(r)
  BY DEF TypeOK, StoreTypeOK, ApiTypeOK, ShownInv
<1>1. NothingToClean(h) \/ StatusRun(h)
  <2>0. request[h].reply = "none" /\ request'[h].reply = "cleanup"
    BY DEF AnswersCleanup
  <2>1. ASSUME NEW m \in request[h].todo,
               SkipVm(h, m) \/ DeleteRunVm(h, m) \/ DeletePrefixedVm(h, m)
        PROVE  FALSE
    <3>1. ASSUME SkipVm(h, m) PROVE FALSE
      BY <1>0, <2>0, <3>1 DEF SkipVm, Continue, Request
    <3>2. ASSUME DeleteRunVm(h, m) PROVE FALSE
      BY <1>0, <2>0, <3>2 DEF DeleteRunVm, Continue, Request
    <3>3. ASSUME DeletePrefixedVm(h, m) PROVE FALSE
      BY <1>0, <2>0, <3>3 DEF DeletePrefixedVm, Continue, Request
    <3> QED  BY <2>1, <3>1, <3>2, <3>3
  <2>2. ASSUME NEW s \in Runs, RereadRun(h, s) PROVE FALSE
    BY <1>0, <2>0, <2>2 DEF RereadRun, Continue, Request
  <2>3. ASSUME ListVms(h) \/ ListAllVms(h) PROVE FALSE
    <3>1. ~Reply(h, "none")
      BY <1>0, <2>0 DEF Reply, Continue, NoRequest, NewRequest
    <3>2. ASSUME ListVms(h) PROVE FALSE
      BY <1>0, <2>0, <3>1, <3>2, ZenonT(40) DEF ListVms, Continue, Request, Abort
    <3>3. ASSUME ListAllVms(h) PROVE FALSE
      BY <1>0, <2>0, <3>1, <3>3, ZenonT(40) DEF ListAllVms, Continue, Request, Abort
    <3> QED  BY <2>3, <3>2, <3>3
  <2>4. ASSUME DeleteRunIsos(h) \/ DeleteAllIsos(h) PROVE FALSE
    <3>1. ASSUME DeleteRunIsos(h) PROVE FALSE
      <4>1. PICK kept, p : request' = [request EXCEPT ![h] =
                             [request[h] EXCEPT !.pc = "write", !.isoFailed = kept, !.progress = p]]
        <5>1. PICK kept : request' = [request EXCEPT ![h] =
                            [request[h] EXCEPT !.pc = "write", !.isoFailed = kept,
                                               !.progress = @ \/ kept # request[h].isos]]
          BY <3>1 DEF DeleteRunIsos, Continue
        <5> QED
          BY <5>1
      <4> QED
        BY <1>0, <2>0, <4>1 DEF Request
    <3>2. ASSUME DeleteAllIsos(h) PROVE FALSE
      <4>1. PICK kept : request' = [request EXCEPT ![h] = [request[h] EXCEPT !.pc = "a-runs", !.isoFailed = kept]]
        BY <3>2 DEF DeleteAllIsos, Continue
      <4> QED
        BY <1>0, <2>0, <4>1 DEF Request
    <3> QED
      BY <2>4, <3>1, <3>2
  <2>5. ASSUME WriteBackRun(h) \/ WriteBackAll(h) \/ StatusAll(h) PROVE FALSE
    <3>1. ASSUME WriteBackRun(h) PROVE FALSE
      <4>1. PICK vms, isos : request' = [request EXCEPT ![h] = [request[h] EXCEPT !.pc = "status", !.vms = vms, !.isos = isos]]
        BY <3>1 DEF WriteBackRun, Continue
      <4> QED
        BY <1>0, <2>0, <4>1 DEF Request
    <3>2. ASSUME WriteBackAll(h) PROVE FALSE
      <4>1. request' = [request EXCEPT ![h] = [request[h] EXCEPT !.pc = "a-status"]]
        BY <3>2 DEF WriteBackAll, Continue
      <4> QED
        BY <1>0, <2>0, <4>1 DEF Request
    <3>3. ASSUME StatusAll(h) PROVE FALSE
      <4>1. PICK tracked : request' = [request EXCEPT ![h] = [request[h] EXCEPT !.pc = "a-runs", !.tracked = tracked]]
        <5>1. request' = [request EXCEPT ![h] = [request[h] EXCEPT !.pc = "a-runs", !.tracked = @ \ {request[h].run}]]
          BY <3>3 DEF StatusAll, Continue
        <5> QED
          BY <5>1
      <4> QED
        BY <1>0, <2>0, <4>1 DEF Request
    <3> QED
      BY <2>5, <3>1, <3>2, <3>3
  <2>6. ASSUME DeleteMeetsGoneVm(h) \/ AllMeetsGoneVm(h) \/ AllDone(h) PROVE FALSE
    BY <1>0, <2>0, <2>6
    DEF DeleteMeetsGoneVm, AllMeetsGoneVm, AllDone, Continue, Abort, Reply, NoRequest, NewRequest
  <2> QED  BY <2>1, <2>2, <2>3, <2>4, <2>5, <2>6 DEF Handle, HandlerStep
<1>2. UNCHANGED inventory /\ objrow'[r].vms = objrow[r].vms
  BY <1>0, <1>1, <1>r, StatusShows DEF NothingToClean, StatusRun
<1>3. objrow[r].vms \cap inventory \subseteq LiveRegistered(r)
  BY <1>0 DEF ClaimsTrue, LiveRegistered
<1>4. CASE NothingToClean(h)
  <2>1. LiveRegistered(r) = {}
    BY <1>0, <1>4, <1>r DEF NothingToClean, At, HandlerTrue, Gone
  <2> QED  BY <1>2, <1>3, <1>r, <2>1
<1>5. CASE StatusRun(h)
  <2>1. LiveRegistered(r) \subseteq request[h].vms
    BY <1>0, <1>5, <1>r DEF StatusRun, At, HandlerTrue
  <2>2. DerivedState(h) = "cleanup"
    BY <1>0, <1>5 DEF StatusRun, AnswersCleanup, Reply, Continue, NoRequest, NewRequest
  <2> QED  BY <1>2, <1>3, <1>r, <2>1, <2>2, DerivedCleanup
<1> QED  BY <1>1, <1>4, <1>5

\* What CleanupAnswerIsTrue says of one step.
AnswerStep ==
  \A h \in Handlers :
    LET r == request[h].run IN
    /\ request[h].reply = "none" /\ request'[h].reply = "cleanup"
    /\ ~Deleted(r)
    => objrow'[r].vms \cap inventory' = {}

\* Only a handler answers.
LEMMA AnswerSteps ==
  ASSUME TypeOK, ShownInv, [Next]_vars
  PROVE  AnswerStep
<1> SUFFICES ASSUME NEW h \in Handlers, AnswersCleanup(h), ~Deleted(request[h].run)
             PROVE  objrow'[request[h].run].vms \cap inventory' = {}
  BY DEF AnswerStep, AnswersCleanup
<1>0. request \in [Handlers -> Request]
  BY DEF TypeOK, ApiTypeOK
<1>1. request'[h].reply # request[h].reply /\ request'[h].reply = "cleanup"
  BY DEF AnswersCleanup
<1>2. ASSUME NEW g \in Handlers, NEW r \in Runs, CleanupRun(g, r) PROVE FALSE
  BY <1>0, <1>1, <1>2 DEF CleanupRun, ApiCleanupRun, Continue, NewRequest
<1>3. ASSUME NEW g \in Handlers, CleanupAll(g) PROVE FALSE
  BY <1>0, <1>1, <1>3 DEF CleanupAll, ApiCleanupAll, Continue, NewRequest
<1>4. ASSUME Restart PROVE FALSE
  BY <1>1, <1>4 DEF Restart, NoRequest, NewRequest
<1>5. ~UNCHANGED request
  BY <1>1
<1>6. \E g \in Handlers : Handle(g)
  BY <1>2, <1>3, <1>4, <1>5
  DEF Next, Start, Cancel, CancelRun, Work, DeleteHistory, ApiDeleteHistory, vars
<1>7. PICK g \in Handlers : Handle(g)
  BY <1>6
<1>8. g = h
  BY <1>1, <1>7, OtherRequests DEF Handle
<1> QED  BY <1>7, <1>8, AnswerTrue

\* With careful operators, POST /api/history/{id}/cleanup answers "cleanup" only when
\* no VM that the run's row lists is alive, with other handlers at work at the same
\* time.
THEOREM CleanupAnswerCorrect == Quiesced => (Spec => CleanupAnswerIsTrue)
<1> SUFFICES ASSUME Quiesced PROVE Spec => CleanupAnswerIsTrue
  OBVIOUS
<1>1. Init => MemoryInv /\ CoverInv /\ ShownInv
  BY MemoryInit, CoverInit, ShownInit
<1>2. TypeOK /\ MemoryInv /\ CoverInv /\ ShownInv /\ [Next]_vars
      => MemoryInv' /\ CoverInv' /\ ShownInv'
  BY MemoryNext, CoverNext, ShownNext
<1>3. TypeOK /\ ShownInv /\ [Next]_vars => [AnswerStep]_vars
  BY AnswerSteps
<1> QED  BY <1>1, <1>2, <1>3, TypeCorrect, PTL DEF Spec, CleanupAnswerIsTrue, AnswerStep
=============================================================================
