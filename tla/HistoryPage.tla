----------------------------- MODULE HistoryPage -----------------------------
(***************************************************************************)
(* The page "History" (history.component.ts and its template): the list of *)
(* runs in pages, clean-ups of one run and of all, removal of a record,    *)
(* and the drawer that shows a result in a ResultPanel, from where it is   *)
(* exported.  Requests are answered in any order.  Two halves of a         *)
(* clean-up at the server, reading whether the run is clean and writing    *)
(* the outcome, are steps of their own; what is between is RunWorker's and *)
(* CleanupApi's.                                                           *)
(***************************************************************************)
EXTENDS ResultPanel

CONSTANTS
  Runs,       \* numbered from the newest
  None,
  Results,    \* what runs may have as their results, numbered
  PageSize,
  DevMode,    \* isDevMode(): records may be removed
  MaxClicks   \* bound: how often the user does something but turn pages

ASSUME HistoryAssumption ==
  /\ Runs \subseteq Nat /\ IsFiniteSet(Runs)
  /\ PageSize \in Nat \ {0} /\ MaxClicks \in Nat /\ DevMode \in BOOLEAN
  /\ None \notin Runs /\ None \notin DOMAIN Results

VARIABLES
  list,       \* runs, a sequence of [id, state]
  gen,        \* how often the list has been replaced by a load
  page,       \* currentPage
  load,       \* getHistory: [pc, rows]; loading is pc # "idle"
  cleaningId, cleanups,  \* cleanupRun requests: [id, gen, pc, state]
  cleaningAll, sweep,    \* cleanupAllRuns: "idle", "sent", "done", "failed"
  deletingId, deletes,   \* deleteHistory requests
  drawer,     \* [open, selected, result, loading]
  asks,       \* getRunResult requests: [id, no]
  processed,  \* of the panel: None or the number of the result laid out
  host,       \* element of the matrices: [no, style]
  exporting, shots,      \* exportMatrixPng: [host, backup]
  db,         \* per run of the server: [present, state, result]
  clicks,
  calm        \* history: no two requests that disturb each other were out together

listVars   == <<list, gen, page, load>>
cleanVars  == <<cleaningId, cleanups, cleaningAll, sweep, deletingId, deletes>>
panelVars  == <<processed, host, exporting, shots>>
drawerVars == <<drawer, asks>>
vars == <<listVars, cleanVars, panelVars, drawerVars, db, clicks, calm>>

States == {"pending", "cleanup", "partial", "failed"}
Outcomes == States \ {"pending"}   \* of _derive_cleanup_state

TypeOK ==
  /\ list \in Seq([id : Runs, state : States]) /\ Len(list) <= Cardinality(Runs)
  /\ gen \in Nat /\ page \in Nat \ {0}
  /\ load \in [pc : {"idle", "sent", "answered"}, rows : Seq([id : Runs, state : States])]
  /\ Len(load.rows) <= Cardinality(Runs)
  /\ {cleaningId, deletingId} \subseteq Runs \cup {None}
  /\ cleanups \subseteq [id : Runs, no : Nat, gen : Nat, pc : {"sent", "working", "done", "failed"},
                         state : States]
  /\ cleaningAll \in BOOLEAN /\ sweep \in {"idle", "sent", "done", "failed"}
  /\ deletes \subseteq [id : Runs, no : Nat, pc : {"sent", "done", "failed"}]
  /\ drawer \in [open : BOOLEAN, selected : Runs \cup {None}, result : Runs \cup {None},
                 loading : BOOLEAN]
  /\ asks \subseteq [id : Runs, no : Nat]
  /\ processed \in DOMAIN Results \cup {None} /\ exporting \in BOOLEAN
  /\ host \in [no : Nat, style : {"screen", "export"}]
  /\ shots \subseteq [no : Nat, host : Nat, backup : {"screen", "export"}]
  /\ db \in [Runs -> [present : BOOLEAN, state : States, result : DOMAIN Results \cup {None}]]
  /\ clicks \in 0..MaxClicks /\ calm \in BOOLEAN

Load(pc, rows) == [pc |-> pc, rows |-> rows]
Closed == [open |-> FALSE, selected |-> None, result |-> None, loading |-> FALSE]

\* A run not cleaned yet in any way, with or without a result; ngOnInit loads.
Init ==
  /\ list = <<>> /\ gen = 0 /\ page = 1 /\ load = Load("sent", <<>>)
  /\ cleaningId = None /\ cleanups = {} /\ cleaningAll = FALSE /\ sweep = "idle"
  /\ deletingId = None /\ deletes = {}
  /\ drawer = Closed /\ asks = {}
  /\ processed = None /\ host = [no |-> 0, style |-> "screen"]
  /\ exporting = FALSE /\ shots = {}
  /\ db \in [Runs -> [present : {TRUE}, state : {"pending"}, result : DOMAIN Results \cup {None}]]
  /\ clicks = 0 /\ calm = TRUE

\* What the user does; with the list, only while the drawer does not cover it.
Click == clicks < MaxClicks /\ clicks' = clicks + 1
ClickList == Click /\ ~drawer.open

Busy(id) == \E c \in cleanups : c.id = id

-----------------------------------------------------------------------------
(***************************************************************************)
(* The list and its pages                                                  *)
(***************************************************************************)

PageCount(n) == IF n = 0 THEN 1 ELSE (n + PageSize - 1) \div PageSize
Shown == {i \in DOMAIN list : (page - 1) * PageSize < i /\ i <= page * PageSize}

Smaller(a, b) == IF a <= b THEN a ELSE b

\* The arrows, each disabled at its end.
TurnPage ==
  /\ ~drawer.open
  /\ PageCount(Len(list)) > 1
  /\ \/ page # 1 /\ page' = Smaller(page - 1, PageCount(Len(list)))
     \/ page # PageCount(Len(list)) /\ page' = Smaller(page + 1, PageCount(Len(list)))
  /\ UNCHANGED <<list, gen, load, cleanVars, panelVars, drawerVars, db, clicks, calm>>

Refresh ==
  /\ ClickList
  /\ load.pc = "idle" /\ ~cleaningAll
  /\ load' = Load("sent", <<>>)
  /\ calm' = (calm /\ cleanups = {} /\ deletes = {})
  /\ UNCHANGED <<list, gen, page, cleanVars, panelVars, drawerVars, db>>

\* The runs, the newest first.
Rows == InOrder({id \in Runs : db[id].present})
Served == [i \in DOMAIN Rows |-> [id |-> Rows[i], state |-> db[Rows[i]].state]]

LoadServed ==
  /\ load.pc = "sent"
  /\ load' = Load("answered", Served)
  /\ UNCHANGED <<list, gen, page, cleanVars, panelVars, drawerVars, db, clicks, calm>>

\* Faulty: what is loaded is appended.
ListAppended(old, served) == old \o served

ListLoaded(old, served) == served

LoadAnswered ==
  /\ load.pc = "answered"
  /\ list' = ListLoaded(list, load.rows) /\ gen' = gen + 1
  /\ page' = 1
  /\ load' = Load("idle", <<>>)
  /\ UNCHANGED <<cleanVars, panelVars, drawerVars, db, clicks, calm>>

LoadFails ==
  /\ load.pc = "sent"
  /\ load' = Load("idle", <<>>)
  /\ calm' = FALSE
  /\ UNCHANGED <<list, gen, page, cleanVars, panelVars, drawerVars, db, clicks>>

-----------------------------------------------------------------------------
(***************************************************************************)
(* Cleaning up                                                             *)
(***************************************************************************)

CanCleanup(run) == run.state # "cleanup"

\* The button of a row, and yes to the question.  The row, not its id, is kept for the
\* answer.
CleanupClick(i) ==
  /\ ClickList
  /\ i \in Shown
  /\ list[i].id \notin {cleaningId, deletingId} /\ ~cleaningAll /\ CanCleanup(list[i])
  /\ cleaningId' = list[i].id
  /\ cleanups' = cleanups \cup
       {[id |-> list[i].id, no |-> clicks, gen |-> gen, pc |-> "sent", state |-> "pending"]}
  /\ calm' = (calm /\ load.pc = "idle" /\ ~Busy(list[i].id) /\ deletes = {})
  /\ UNCHANGED <<listVars, cleaningAll, sweep, deletingId, deletes, panelVars, drawerVars, db>>

Becomes(c, d) == cleanups' = (cleanups \ {c}) \cup {d}

\* The server looks whether the run is clean; nothing is left to do, or it is at work, or
\* it refuses (no credentials, no vCenter).
CleanupStarts(c) ==
  /\ c.pc = "sent"
  /\ IF db[c.id].state = "cleanup"
     THEN Becomes(c, [c EXCEPT !.pc = "done", !.state = "cleanup"])
     ELSE \E pc \in {"working", "failed"} : Becomes(c, [c EXCEPT !.pc = pc])
  /\ UNCHANGED <<listVars, cleaningId, cleaningAll, sweep, deletingId, deletes, panelVars,
                 drawerVars, db, clicks, calm>>

CleanupEnds(c) ==
  /\ c.pc = "working"
  /\ \E state \in Outcomes :
       /\ Becomes(c, [c EXCEPT !.pc = "done", !.state = state])
       /\ db' = [db EXCEPT ![c.id].state = state]
  /\ UNCHANGED <<listVars, cleaningId, cleaningAll, sweep, deletingId, deletes, panelVars,
                 drawerVars, clicks, calm>>

\* Faulty: a state is forgotten.
NormalizeWithoutPartial(s) == IF s \in {"cleanup", "failed"} THEN s ELSE "pending"

NormalizeCleanupState(s) == IF s \in {"cleanup", "partial", "failed"} THEN s ELSE "pending"

\* Faulty: an error leaves the button as it is.
AfterAnswer(slot, ok) == IF ok THEN None ELSE slot

\* cleaningId after an answer, whichever run it is of.
NoLongerCleaning(slot, ok) == None

CleanupAnswered(c) ==
  /\ c.pc \in {"done", "failed"}
  /\ list' = IF c.pc = "done" /\ c.gen = gen
             THEN [i \in DOMAIN list |-> IF list[i].id = c.id
                                         THEN [list[i] EXCEPT !.state = NormalizeCleanupState(c.state)]
                                         ELSE list[i]]
             ELSE list
  /\ cleaningId' = NoLongerCleaning(cleaningId, c.pc = "done")
  /\ cleanups' = cleanups \ {c}
  /\ UNCHANGED <<gen, page, load, cleaningAll, sweep, deletingId, deletes, panelVars, drawerVars,
                 db, clicks, calm>>

\* The button for all runs.
CleanupAllClick ==
  /\ ClickList
  /\ ~cleaningAll /\ load.pc = "idle" /\ deletingId = None /\ cleaningId = None
  /\ cleaningAll' = TRUE /\ sweep' = "sent"
  /\ calm' = (calm /\ cleanups = {} /\ deletes = {})
  /\ UNCHANGED <<listVars, cleaningId, cleanups, deletingId, deletes, panelVars, drawerVars, db>>

\* Every run is cleaned up or left; an error may come at any run.
SweepServed ==
  /\ sweep = "sent"
  /\ \E touched \in SUBSET Runs : \E states \in [touched -> Outcomes] :
       db' = [id \in Runs |-> IF id \in touched THEN [db[id] EXCEPT !.state = states[id]] ELSE db[id]]
  /\ sweep' \in {"done", "failed"}
  /\ calm' = (calm /\ sweep' = "done")
  /\ UNCHANGED <<listVars, cleaningId, cleanups, cleaningAll, deletingId, deletes, panelVars,
                 drawerVars, clicks>>

\* An answer has the list loaded again, an error not.
SweepAnswered ==
  /\ sweep \in {"done", "failed"}
  /\ cleaningAll' = FALSE /\ sweep' = "idle"
  /\ load' = IF sweep = "done" THEN Load("sent", <<>>) ELSE load
  /\ UNCHANGED <<list, gen, page, cleaningId, cleanups, deletingId, deletes, panelVars, drawerVars,
                 db, clicks, calm>>

-----------------------------------------------------------------------------
(***************************************************************************)
(* Removing a record                                                       *)
(***************************************************************************)

DeleteClick(i) ==
  /\ DevMode /\ ClickList
  /\ i \in Shown
  /\ list[i].id \notin {deletingId, cleaningId} /\ ~cleaningAll
  /\ deletingId' = list[i].id
  /\ deletes' = deletes \cup {[id |-> list[i].id, no |-> clicks, pc |-> "sent"]}
  /\ calm' = (calm /\ load.pc = "idle" /\ cleanups = {} /\ asks = {})
  /\ UNCHANGED <<listVars, cleaningId, cleanups, cleaningAll, sweep, panelVars, drawerVars, db>>

DeleteServed(d) ==
  /\ d.pc = "sent"
  /\ \/ /\ db' = [db EXCEPT ![d.id].present = FALSE, ![d.id].result = None]
        /\ deletes' = (deletes \ {d}) \cup {[d EXCEPT !.pc = "done"]}
     \/ UNCHANGED db /\ deletes' = (deletes \ {d}) \cup {[d EXCEPT !.pc = "failed"]}
  /\ UNCHANGED <<listVars, cleaningId, cleanups, cleaningAll, sweep, deletingId, panelVars,
                 drawerVars, clicks, calm>>

-----------------------------------------------------------------------------
(***************************************************************************)
(* The drawer                                                              *)
(***************************************************************************)

\* What processResult makes of each result.
Panels == [n \in DOMAIN Results |-> ProcessResult(Results[n])]

\* ngOnChanges: the panel of a new result; without one it has no element.
PanelOf(result) ==
  /\ processed' = result
  /\ host' = IF result = None /\ processed # None THEN [no |-> host.no + 1, style |-> "screen"] ELSE host

\* Faulty: the result of the run before stays until there is another.
DrawerOfKeeping(id, old) == [open |-> TRUE, selected |-> id, result |-> old, loading |-> TRUE]

DrawerOf(id, old) == [open |-> TRUE, selected |-> id, result |-> None, loading |-> TRUE]

\* A click on a row.  While the drawer is open it covers the rows.
SelectRun(i) ==
  /\ ClickList
  /\ i \in Shown
  /\ drawer' = DrawerOf(list[i].id, drawer.result)
  /\ IF drawer'.result = None THEN PanelOf(None) ELSE UNCHANGED <<processed, host>>
  /\ asks' = asks \cup {[id |-> list[i].id, no |-> clicks]}
  /\ calm' = (calm /\ asks = {} /\ deletes = {})
  /\ UNCHANGED <<listVars, cleanVars, exporting, shots, db>>

\* getRunResult is answered with a result, or with an error.
ResultAnswered(a) ==
  /\ asks' = asks \ {a}
  /\ IF db[a.id].result # None
     THEN /\ drawer' = [drawer EXCEPT !.result = a.id, !.loading = FALSE]
          /\ PanelOf(db[a.id].result)
     ELSE /\ drawer' = [drawer EXCEPT !.loading = FALSE]
          /\ UNCHANGED <<processed, host>>
  /\ UNCHANGED <<listVars, cleanVars, exporting, shots, db, clicks, calm>>

CloseDrawer ==
  /\ Click
  /\ drawer.open
  /\ drawer' = [drawer EXCEPT !.open = FALSE, !.selected = None, !.result = None]
  /\ PanelOf(None)
  /\ UNCHANGED <<listVars, cleanVars, exporting, shots, asks, db, calm>>

DeleteRefused(d) ==
  /\ d.pc = "failed"
  /\ deletes' = deletes \ {d} /\ deletingId' = None
  /\ UNCHANGED <<listVars, cleaningId, cleanups, cleaningAll, sweep, panelVars, drawerVars, db,
                 clicks, calm>>

\* A record is gone: so is its row, and the result if it is shown, but not the drawer.
DeleteAnswered(d) ==
  /\ d.pc = "done"
  /\ deletes' = deletes \ {d} /\ deletingId' = None
  /\ list' = Kept(list, {i \in DOMAIN list : list[i].id # d.id})
  /\ IF drawer.selected = d.id
     THEN drawer' = [drawer EXCEPT !.selected = None, !.result = None] /\ PanelOf(None)
     ELSE UNCHANGED <<drawer, processed, host>>
  /\ UNCHANGED <<gen, page, load, cleaningId, cleanups, cleaningAll, sweep, exporting, shots, asks,
                 db, clicks, calm>>

-----------------------------------------------------------------------------
(***************************************************************************)
(* Exporting the matrices                                                  *)
(***************************************************************************)

\* Faulty: the button stays enabled.
MayExportAgain(busy) == TRUE

\* The buttons are disabled while an export is under way.
MayExport(busy) == ~busy

HasMatrix == processed # None /\ Panels[processed].matrices # <<>>

\* exportMatrixPng up to its first await: the styles are kept, and changed.  (An export as
\* HTML begins and ends in one step, and leaves nothing behind.)
ExportPng ==
  /\ Click
  /\ drawer.open /\ HasMatrix /\ MayExport(exporting)
  /\ exporting' = TRUE
  /\ shots' = shots \cup {[no |-> clicks, host |-> host.no, backup |-> host.style]}
  /\ host' = [host EXCEPT !.style = "export"]
  /\ UNCHANGED <<listVars, cleanVars, processed, drawerVars, db, calm>>

\* Its end, by whatever way: the styles that were kept are put back.
ExportEnds(shot) ==
  /\ host' = IF shot.host = host.no THEN [host EXCEPT !.style = shot.backup] ELSE host
  /\ exporting' = FALSE
  /\ shots' = shots \ {shot}
  /\ UNCHANGED <<listVars, cleanVars, processed, drawerVars, db, clicks, calm>>

-----------------------------------------------------------------------------
Next ==
  \/ TurnPage \/ Refresh \/ LoadServed \/ LoadAnswered \/ LoadFails
  \/ \E i \in DOMAIN list : CleanupClick(i) \/ DeleteClick(i) \/ SelectRun(i)
  \/ \E c \in cleanups : CleanupStarts(c) \/ CleanupEnds(c) \/ CleanupAnswered(c)
  \/ CleanupAllClick \/ SweepServed \/ SweepAnswered
  \/ \E d \in deletes : DeleteServed(d) \/ DeleteAnswered(d) \/ DeleteRefused(d)
  \/ \E a \in asks : ResultAnswered(a)
  \/ CloseDrawer \/ ExportPng \/ \E shot \in shots : ExportEnds(shot)

Spec == Init /\ [][Next]_vars
-----------------------------------------------------------------------------
(***************************************************************************)
(* Properties.  "Undisturbed" means: no two requests that change or show   *)
(* the same were out together, and none of all runs failed half-way.       *)
(***************************************************************************)

\* A button is disabled, and a spinner turns, only while a request is out whose answer
\* ends it, in spite of one slot for requests of several runs.
NoSpinnerForNothing ==
  /\ cleaningId # None => Busy(cleaningId)
  /\ deletingId # None => \E d \in deletes : d.id = deletingId
  /\ cleaningAll <=> sweep # "idle"
  /\ drawer.loading => asks # {}
  /\ exporting <=> shots # {}

\* Undisturbed, and with nothing out, a row shows the clean-up state the server has.
ShownStateIsServers ==
  calm /\ cleanups = {} /\ sweep = "idle" /\ load.pc = "idle"
    => \A i \in DOMAIN list : db[list[i].id].present => list[i].state = db[list[i].id].state

\* Undisturbed, the result in the drawer is that of the run in its title.
ResultIsOfSelected == calm /\ drawer.open /\ drawer.result # None => drawer.result = drawer.selected

\* After an export the page looks as before, whatever happened to the drawer meanwhile.
StylesRestored == ~exporting => host.style = "screen"
=============================================================================
