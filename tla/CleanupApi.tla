----------------------------- MODULE CleanupApi -----------------------------
(***************************************************************************)
(* The HTTP handlers that act on the objects of runs: clean-up of one run, *)
(* clean-up of everything, and deletion from the history.  FastAPI runs    *)
(* each request in a thread of its pool, so several are in progress at     *)
(* once, beside the workers.  Between two steps of a handler, each a       *)
(* database transaction or a call to vCenter, anything may happen.         *)
(***************************************************************************)
EXTENDS CreatedObjects

CONSTANT Handlers     \* threads of the request pool

VARIABLE request      \* the locals of the handler in each thread

\* pc       where the handler is
\* run      the run it works on
\* vms,isos the registry it read; in cleanup-all, the one it will write
\* prefix   vm_prefix, read from the configuration
\* seen     vm_by_moid: the VMs that existed when it listed them
\* todo     VMs its loop has still to visit
\* failed   failed_moids (vm_failed_moids in cleanup-all)
\* isoScope cleanup-all: iso_candidates
\* isoFailed ISO entries whose deletion failed
\* progress something was cleaned or skipped
\* touched  cleanup-all: the run has an object in scope
\* tracked  cleanup-all: the runs whose rows it has still to rewrite
\* reply    the cleanup_state it answered with, "none" for an HTTP error and
\*          while it runs
RequestPc == {"idle", "nothing", "connect", "delete", "write", "status",
              "a-connect", "a-delete", "a-runs", "a-write", "a-status"}

Request == [pc : RequestPc, run : Runs, vms : SUBSET Vms, isos : SUBSET Isos,
            prefix : Prefixes, seen : SUBSET Vms, todo : SUBSET Vms,
            failed : SUBSET Vms, isoScope : SUBSET Isos, isoFailed : SUBSET Isos,
            progress : BOOLEAN, touched : BOOLEAN, tracked : SUBSET Runs,
            reply : CleanupState \cup {"none"}]

NewRequest(l, r, p) ==
  [pc |-> l, run |-> r, vms |-> {}, isos |-> {}, prefix |-> p, seen |-> {},
   todo |-> {}, failed |-> {}, isoScope |-> {}, isoFailed |-> {},
   progress |-> FALSE, touched |-> FALSE, tracked |-> {}, reply |-> "none"]

NoRequest ==
  NewRequest("idle", CHOOSE r \in Runs : TRUE, CHOOSE p \in Prefixes : TRUE)

At(h, l) == request[h].pc = l

\* The handler in thread h goes on with the locals q.
Continue(h, q) == request' = [request EXCEPT ![h] = q]

\* The handler's locals are gone once it has answered.
Reply(h, s) == Continue(h, [NoRequest EXCEPT !.reply = s])

\* An HTTP error: an exception left the handler, nothing more is written.
Abort(h) == Reply(h, "none")

\* set_cleanup_status, called with cleaned = (state == "cleanup").
WriteStatus(r, state) ==
  objrow' = [objrow EXCEPT ![r] = SetCleanupStatus(@, state, state = "cleanup")]

\* Faulty KeepsEntry: only refused deletions keep a VM in the registry.
KeepsRefused(outcome) == outcome = "prefix-mismatch"

\* failed_moids: a VM stays in the registry unless it was destroyed.
KeepsEntry(outcome) == outcome # "ok"

DeleteOutcome == {"ok", "prefix-mismatch", "failed"}

\* delete_vm as one step: refuse a VM without the prefix, else power it off and
\* destroy it.  A task that fails or times out may still take the VM with it.
DeleteVm(m, p, outcome) ==
  \/ outcome = "ok" /\ HasPrefix(m, p) /\ m \in inventory /\ inventory' = inventory \ {m}
  \/ outcome = "prefix-mismatch" /\ ~HasPrefix(m, p) /\ m \in inventory /\ UNCHANGED inventory
  \/ outcome = "failed" /\ HasPrefix(m, p) /\ inventory' \in {inventory, inventory \ {m}}

-----------------------------------------------------------------------------
\* api_cleanup_run: read the registry and the configuration.
ApiCleanupRun(h, r) ==
  /\ At(h, "idle")
  /\ \E p \in Prefixes :
       Continue(h, [NewRequest(IF \/ objrow[r].cleaned
                                  \/ objrow[r].vms = {} /\ objrow[r].isos = {}
                                 THEN "nothing" ELSE "connect", r, p)
                      EXCEPT !.vms = objrow[r].vms, !.isos = objrow[r].isos])
  /\ UNCHANGED storeVars

\* "already cleaned", or "no real VMs/ISOs to delete".
NothingToClean(h) ==
  /\ At(h, "nothing")
  /\ WriteStatus(request[h].run, "cleanup")
  /\ Reply(h, "cleanup")
  /\ UNCHANGED <<inventory, datastore, runrow>>

\* Connecting may fail (HTTP 400 or 502); else list the inventory.
ListVms(h) ==
  /\ At(h, "connect")
  /\ \/ Continue(h, [request[h] EXCEPT !.pc = "delete", !.seen = inventory,
                                         !.todo = request[h].vms])
     \/ Abort(h)
  /\ UNCHANGED storeVars

\* A registered VM that was not listed is skipped.
SkipVm(h, m) ==
  /\ At(h, "delete") /\ m \in request[h].todo \ request[h].seen
  /\ Continue(h, [request[h] EXCEPT !.todo = @ \ {m}, !.progress = TRUE])
  /\ UNCHANGED storeVars

DeleteRunVm(h, m) ==
  /\ At(h, "delete") /\ m \in request[h].todo \cap request[h].seen
  /\ \E o \in DeleteOutcome :
       /\ DeleteVm(m, request[h].prefix, o)
       /\ Continue(h, [request[h] EXCEPT
            !.todo = @ \ {m},
            !.failed = IF KeepsEntry(o) THEN @ \cup {m} ELSE @,
            !.progress = @ \/ o # "failed"])
  /\ UNCHANGED <<datastore, runrow, objrow>>

\* Reading the name of a listed VM that is gone by now raises: before it is
\* deleted, and for the report of a deletion that failed.
DeleteMeetsGoneVm(h) ==
  /\ At(h, "delete")
  /\ ((request[h].todo \cup request[h].failed) \cap request[h].seen) \ inventory # {}
  /\ Abort(h)
  /\ UNCHANGED storeVars

DeleteRunIsos(h) ==
  /\ At(h, "delete") /\ request[h].todo = {}
  /\ \E kept \in SUBSET request[h].isos :
       /\ DeleteIsos(request[h].isos, kept)
       /\ Continue(h, [request[h] EXCEPT
            !.pc = "write", !.isoFailed = kept,
            !.progress = @ \/ kept # request[h].isos])
  /\ UNCHANGED <<inventory, runrow, objrow>>

\* The registry that was read at the start, reduced to what failed, is written
\* over whatever the row holds now.
WriteBackRun(h) ==
  /\ At(h, "write")
  /\ LET r    == request[h].run
         vms  == request[h].vms \cap request[h].failed
         isos == request[h].isoFailed
     IN  /\ objrow' = [objrow EXCEPT ![r] = UpsertCreatedObjects(@, vms, isos)]
         /\ Continue(h, [request[h] EXCEPT !.pc = "status", !.vms = vms, !.isos = isos])
  /\ UNCHANGED <<inventory, datastore, runrow>>

\* The state derived from what remains in the registry it wrote.
DerivedState(h) ==
  DeriveCleanupState(request[h].vms = {} /\ request[h].isos = {}, request[h].progress)

StatusRun(h) ==
  /\ At(h, "status")
  /\ WriteStatus(request[h].run, DerivedState(h))
  /\ Reply(h, DerivedState(h))
  /\ UNCHANGED <<inventory, datastore, runrow>>

-----------------------------------------------------------------------------
\* api_cleanup_all_runs: read the configuration and all rows.
ApiCleanupAll(h) ==
  /\ At(h, "idle")
  /\ LET rows == {r \in Runs : objrow[r].present}
     IN  \E p \in Prefixes :
           Continue(h, [NewRequest("a-connect", request[h].run, p) EXCEPT
             !.tracked = rows, !.isoScope = UNION {objrow[r].isos : r \in rows}])
  /\ UNCHANGED storeVars

\* Every VM in vCenter whose name starts with the prefix is to go.
ListAllVms(h) ==
  /\ At(h, "a-connect")
  /\ \/ Continue(h, [request[h] EXCEPT
           !.pc = "a-delete", !.seen = inventory,
           !.todo = {m \in inventory : HasPrefix(m, request[h].prefix)}])
     \/ Abort(h)
  /\ UNCHANGED storeVars

DeletePrefixedVm(h, m) ==
  /\ At(h, "a-delete") /\ m \in request[h].todo
  /\ \E o \in DeleteOutcome :
       /\ DeleteVm(m, request[h].prefix, o)
       /\ Continue(h, [request[h] EXCEPT
            !.todo = @ \ {m},
            !.failed = IF KeepsEntry(o) THEN @ \cup {m} ELSE @])
  /\ UNCHANGED <<datastore, runrow, objrow>>

\* The deletion loop reads the name of every listed VM, and the loop over the
\* runs again those of a run's VMs; for one that is gone, also one that this
\* handler itself destroyed, that raises as soon as vCenter has forgotten it.
AllMeetsGoneVm(h) ==
  /\ LET q     == request[h]
         other == {m \in q.seen : ~HasPrefix(m, q.prefix)}
     IN  \/ At(h, "a-delete") /\ (q.todo \cup other) \ inventory # {}
         \/ At(h, "a-runs") /\ \E r \in q.tracked : (objrow[r].vms \cap q.seen) \ inventory # {}
  /\ Abort(h)
  /\ UNCHANGED storeVars

DeleteAllIsos(h) ==
  /\ At(h, "a-delete") /\ request[h].todo = {}
  /\ \E kept \in SUBSET request[h].isoScope :
       /\ DeleteIsos(request[h].isoScope, kept)
       /\ Continue(h, [request[h] EXCEPT !.pc = "a-runs", !.isoFailed = kept])
  /\ UNCHANGED <<inventory, runrow, objrow>>

Ours(q, vms) == {m \in vms \cap q.seen : HasPrefix(m, q.prefix)}

\* The VMs of a row that cleanup-all takes as cleaned: those it did not list, and
\* those with the prefix that did not fail.
GoneVms(q, vms) == (vms \ q.seen) \cup (Ours(q, vms) \ q.failed)

\* The row of a tracked run is read again and reduced; a VM without the prefix
\* stays.
RereadRun(h, r) ==
  /\ At(h, "a-runs") /\ r \in request[h].tracked
  /\ LET q        == request[h]
         vms      == objrow[r].vms
         gone     == GoneVms(q, vms)
         isos     == objrow[r].isos \cap q.isoScope
         goneIsos == isos \ q.isoFailed
     IN  Continue(h, [q EXCEPT
           !.pc = "a-write", !.run = r,
           !.vms = vms \ gone, !.isos = objrow[r].isos \ goneIsos,
           !.touched = (vms \ q.seen) \cup Ours(q, vms) # {} \/ isos # {},
           !.progress = gone # {} \/ goneIsos # {}])
  /\ UNCHANGED storeVars

WriteBackAll(h) ==
  /\ At(h, "a-write")
  /\ objrow' = [objrow EXCEPT ![request[h].run] =
                  UpsertCreatedObjects(@, request[h].vms, request[h].isos)]
  /\ Continue(h, [request[h] EXCEPT !.pc = "a-status"])
  /\ UNCHANGED <<inventory, datastore, runrow>>

StatusAll(h) ==
  /\ At(h, "a-status")
  /\ IF request[h].touched
       THEN WriteStatus(request[h].run, DerivedState(h))
       ELSE UNCHANGED objrow
  /\ Continue(h, [request[h] EXCEPT !.pc = "a-runs", !.tracked = @ \ {request[h].run}])
  /\ UNCHANGED <<inventory, datastore, runrow>>

\* All rows are done (the overall answer is not modelled).
AllDone(h) ==
  /\ At(h, "a-runs") /\ request[h].tracked = {}
  /\ Reply(h, "none")
  /\ UNCHANGED storeVars

-----------------------------------------------------------------------------
\* api_delete_history: the row goes, and its created_objects row with it.
ApiDeleteHistory(r) ==
  /\ runrow[r] # "absent"
  /\ runrow' = [runrow EXCEPT ![r] = "absent"]
  /\ objrow' = [objrow EXCEPT ![r] = NoRow]
  /\ UNCHANGED <<inventory, datastore, request>>

\* One step of a handler that is in progress.
HandlerStep(h) ==
  \/ NothingToClean(h) \/ ListVms(h)
  \/ \E m \in request[h].todo : SkipVm(h, m) \/ DeleteRunVm(h, m) \/ DeletePrefixedVm(h, m)
  \/ DeleteMeetsGoneVm(h) \/ DeleteRunIsos(h) \/ WriteBackRun(h) \/ StatusRun(h)
  \/ ListAllVms(h) \/ AllMeetsGoneVm(h) \/ DeleteAllIsos(h)
  \/ \E r \in Runs : RereadRun(h, r)
  \/ WriteBackAll(h) \/ StatusAll(h) \/ AllDone(h)

ApiInit == request = [h \in Handlers |-> NoRequest]

ApiTypeOK == request \in [Handlers -> Request]
=============================================================================
