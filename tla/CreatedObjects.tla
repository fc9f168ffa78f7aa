--------------------------- MODULE CreatedObjects ---------------------------
(***************************************************************************)
(* The state that a test run, the clean-up endpoints and vCenter share:    *)
(* the vCenter inventory, the datastore files, and the two SQLite tables   *)
(* of nettest/db.py that a run writes (`runs` and `created_objects`).      *)
(*                                                                         *)
(* Every function of db.py runs in one SQLite transaction, so each is one  *)
(* operator here and is used inside one action.  A registry list (vms,     *)
(* isos) is a set: the code appends every object once and never relies on  *)
(* the order.  nics and tags are never filled by the program.              *)
(***************************************************************************)
EXTENDS Naturals, FiniteSets

CONSTANTS
  Runs,       \* run ids; one run per id (ids are distinct timestamps here)
  Vms,        \* managed object ids of virtual machines
  Isos,       \* datastore paths of ISO images
  Foreign,    \* VMs that exist before any run and belong to somebody else
  PreStaged,  \* ISO files the operator put on the datastore beforehand
  Prefixes,   \* values the configured vm_prefix takes
  PrefixOf    \* the prefix a VM's name starts with, fixed when it is named

ASSUME ObjectsAssumption ==
  /\ Runs # {} /\ Prefixes # {}
  /\ Foreign \subseteq Vms
  /\ PreStaged \subseteq Isos
  /\ PrefixOf \in [Vms -> Prefixes \cup {"business"}]
  /\ "business" \notin Prefixes
  /\ \A m \in Foreign : PrefixOf[m] = "business"

VARIABLES
  inventory,  \* the VMs that exist in vCenter
  datastore,  \* the ISO files that exist on the datastore
  runrow,     \* runs.status of each run, "absent" when there is no row
  objrow      \* the created_objects row of each run

storeVars == <<inventory, datastore, runrow, objrow>>

RunStatus    == {"absent", "running", "PASS", "FAIL", "error"}
CleanupState == {"pending", "cleanup", "partial", "failed"}

Registry == [vms : SUBSET Vms, isos : SUBSET Isos]

ObjectRow == [present : BOOLEAN, vms : SUBSET Vms, isos : SUBSET Isos,
              cleaned : BOOLEAN, state : CleanupState]

\* The defaults of the table, which are also what get_created_objects
\* answers when there is no row.
NoRow == [present |-> FALSE, vms |-> {}, isos |-> {},
          cleaned |-> FALSE, state |-> "pending"]

\* upsert_created_objects replaces the lists and leaves `cleaned` and
\* `cleanup_state` of an existing row as they were.
UpsertCreatedObjects(row, vms, isos) ==
  [row EXCEPT !.present = TRUE, !.vms = vms, !.isos = isos]

\* set_cleanup_status replaces the state and the flag and leaves the lists.
SetCleanupStatus(row, state, cleaned) ==
  [row EXCEPT !.present = TRUE, !.state = state, !.cleaned = cleaned]

MarkCleaned(row) == SetCleanupStatus(row, "cleanup", TRUE)

\* The clean-up state that GET /api/history reports for a run.  (A dry run, which
\* has no objects, is reported as cleaned up in any case.)
ShownCleanupState(row) == IF row.cleaned THEN "cleanup" ELSE row.state

\* The faulty variants in these modules are slips the code could contain.  No
\* action uses them: put in the place of the operator they resemble, they show
\* that a property notices the slip.

\* Faulty DeriveCleanupState: what remains is not looked at.
DeriveCleanupStateFromProgress(nothingRemains, anyCleanedOrSkipped) ==
  IF nothingRemains \/ anyCleanedOrSkipped THEN "cleanup" ELSE "failed"

\* _derive_cleanup_state.  The code passes two counts; only whether each is
\* zero matters.
DeriveCleanupState(nothingRemains, anyCleanedOrSkipped) ==
  IF nothingRemains THEN "cleanup"
  ELSE IF anyCleanedOrSkipped THEN "partial" ELSE "failed"

\* Faulty HasPrefix: the safety check of delete_vm is gone.
HasAnyPrefix(m, prefix) == TRUE

\* A VM is one of ours, for the code that destroys VMs, when its name starts
\* with the prefix.
HasPrefix(m, prefix) == PrefixOf[m] = prefix

\* The loop that deletes ISO files, the same in the worker and in the two
\* handlers: the entries in `kept` are those whose deletion failed.  Deleting a
\* missing file fails, and a task that timed out may still delete its file.
DeleteIsos(isos, kept) ==
  /\ kept \subseteq isos /\ isos \ datastore \subseteq kept
  /\ \E late \in SUBSET kept : datastore' = datastore \ ((isos \ kept) \cup late)

StoreInit ==
  /\ inventory = Foreign
  /\ datastore = PreStaged
  /\ runrow = [r \in Runs |-> "absent"]
  /\ objrow = [r \in Runs |-> NoRow]

StoreTypeOK ==
  /\ inventory \subseteq Vms
  /\ datastore \subseteq Isos
  /\ runrow \in [Runs -> RunStatus]
  /\ objrow \in [Runs -> ObjectRow]
=============================================================================
