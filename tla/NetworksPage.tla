---------------------------- MODULE NetworksPage ----------------------------
(***************************************************************************)
(* The page "Input Networks" (input-networks.component.ts): a table loaded *)
(* from the server, merged with the inventory of the vCenter, replaced by  *)
(* an imported file, edited, and saved.  Requests are answered in any      *)
(* order.                                                                  *)
(***************************************************************************)
EXTENDS NetworkMerge, ClientAuth

CONSTANTS
  Tables,      \* what may be stored: sequences of rows
  Files,       \* what may be in an imported file
  Inventories, \* what the vCenter may have
  MaxEdits     \* bound: how often the user changes something

\* Rows as the server has them, without ids, and as the page shows them.
StoredRows == [place : Places \cup {Blank}, pg : Portgroups \cup {Blank}, vlan : Vlans \cup {Blank},
               data : Data \cup {Blank}, id : {0}]
ShownRows == [place : Places \cup {Blank}, pg : Portgroups \cup {Blank}, vlan : Vlans \cup {Blank},
              data : Data \cup {Blank}, id : Nat \ {0}, opts : SUBSET Portgroups]

ASSUME NetworksAssumption ==
  /\ MaxEdits \in Nat
  /\ \A table \in Tables \cup Files : table \in Seq(StoredRows)
  /\ None \notin Inventories /\ \A inv \in Inventories : inv \in Seq(InventoryEntries)

VARIABLES
  rows,      \* the rows shown, each with the portgroups its list offers
  nextRowId,
  inventory, \* the inventory the page holds: None or a member of Inventories
  options,   \* pgOptionsByDcCluster
  load,      \* the getInput request: "sent", its answer, "done"
  sync,      \* syncInventory: "idle", "waiting" for a session, "asked", its answer
  import,    \* the preview of a file: "idle" or its answer
  save,      \* a saveInput request: "idle" or its rows
  stored,    \* network rows of the server
  edits

pageVars == <<rows, nextRowId, inventory, options, load, sync, import, save, stored, edits>>
vars == <<pageVars, authVars>>

Idle == [state |-> "idle"]
Answer(value) == [state |-> "answered", value |-> value]
State(name) == [state |-> name]

NoOptions == [p \in Places |-> {}]

\* Portgroups of a place: of an inventory, and as cached from it.
PortgroupsOf(inv, place) == {inv[i].pg : i \in {i \in DOMAIN inv : inv[i].place = place}} \ {Blank}
OptionsFrom(inv) == [p \in Places |-> PortgroupsOf(inv, p)]
OptionsOf(opts, place) == IF place = Blank THEN {} ELSE opts[place]

\* prepareRows: every row gets an id if it has none, and its list of portgroups.
Prepare(rs, opts) ==
  [i \in DOMAIN rs |->
     [place |-> rs[i].place, pg |-> rs[i].pg, vlan |-> rs[i].vlan, data |-> rs[i].data,
      id |-> IF rs[i].id # 0 THEN rs[i].id
             ELSE nextRowId + Cardinality({k \in 1..(i - 1) : rs[k].id = 0}),
      opts |-> OptionsOf(opts, rs[i].place)]]

\* How far the counter moves.
NewIds(rs) == Cardinality({i \in DOMAIN rs : rs[i].id = 0})

\* What the rows are without their lists.
Bare(rs) == [i \in DOMAIN rs |-> Row(rs[i].place, rs[i].pg, rs[i].vlan, rs[i].data, rs[i].id)]

TypeOK ==
  /\ AuthTypeOK
  /\ rows \in Seq(ShownRows)
  /\ nextRowId \in Nat \ {0}
  /\ inventory \in Inventories \cup {None}
  /\ options \in [Places -> SUBSET Portgroups]
  /\ load.state \in {"sent", "answered", "done"}
  /\ load.state = "answered" => load.value \in Tables \cup {<<>>}
  /\ sync.state \in {"idle", "waiting", "asked", "answered"}
  /\ sync.state = "answered" => sync.value \in Inventories
  /\ import.state \in {"idle", "answered"} /\ (import.state = "answered" => import.value \in Files)
  /\ save.state \in {"idle", "sent"}
  /\ stored \in Tables \cup {<<>>}
  /\ edits \in 0..MaxEdits

\* ngOnInit: the table is requested, and a sync is started.
Init ==
  /\ AuthInit
  /\ rows = <<>> /\ nextRowId = 1
  /\ inventory = None /\ options = NoOptions
  /\ stored \in Tables
  /\ load = State("sent")
  /\ sync = IF HasAuth THEN State("asked") ELSE IF isPlugin THEN State("waiting") ELSE Idle
  /\ import = Idle /\ save = Idle
  /\ edits = 0

-----------------------------------------------------------------------------
(***************************************************************************)
(* Loading, importing, saving                                              *)
(***************************************************************************)

\* Replacing the table by rows that are prepared with the lists known.
Show(rs, opts) == rows' = Prepare(rs, opts) /\ nextRowId' = nextRowId + NewIds(rs)

LoadServed ==
  /\ load.state = "sent"
  /\ load' = Answer(stored)
  /\ UNCHANGED <<rows, nextRowId, inventory, options, sync, import, save, stored, edits, authVars>>

LoadAnswered ==
  /\ load.state = "answered"
  /\ Show(load.value, options)
  /\ load' = State("done")
  /\ UNCHANGED <<inventory, options, sync, import, save, stored, edits, authVars>>

ImportFile ==
  /\ import.state = "idle"
  /\ edits < MaxEdits /\ edits' = edits + 1
  /\ \E table \in Files : import' = Answer(table)
  /\ UNCHANGED <<rows, nextRowId, inventory, options, load, sync, save, stored, authVars>>

ImportAnswered ==
  /\ import.state = "answered"
  /\ Show(import.value, options)
  /\ import' = Idle
  /\ UNCHANGED <<inventory, options, load, sync, save, stored, edits, authVars>>

IsEmpty(row) == {row.place, row.pg, row.vlan, row.data} = {Blank}

\* save() sends the rows that are not empty, with all their properties but _mngt.
SaveClick ==
  /\ save.state = "idle"
  /\ edits < MaxEdits /\ edits' = edits + 1
  /\ save' = [state |-> "sent", value |-> SelectSeq(rows, LAMBDA row : ~IsEmpty(row))]
  /\ UNCHANGED <<rows, nextRowId, inventory, options, load, sync, import, stored, authVars>>

\* InputIn: every property of every row must be a string.  _id is a number and
\* _pgOptions a list, and every row of the page has them.
Accepted(table) == table = <<>>

SaveServed ==
  /\ save.state = "sent"
  /\ save' = Idle
  /\ stored' = IF Accepted(save.value) THEN Bare(save.value) ELSE stored
  /\ UNCHANGED <<rows, nextRowId, inventory, options, load, sync, import, edits, authVars>>

-----------------------------------------------------------------------------
(***************************************************************************)
(* Sync from vCenter                                                       *)
(***************************************************************************)

SyncGoesTo(next) ==
  /\ sync' = next
  /\ UNCHANGED <<rows, nextRowId, inventory, options, load, import, save, stored, authVars>>

\* The button, which a sync under way disables.
SyncClick ==
  /\ sync = Idle
  /\ edits < MaxEdits /\ edits' = edits + 1
  /\ SyncGoesTo(IF HasAuth THEN State("asked") ELSE IF isPlugin THEN State("waiting") ELSE Idle)

\* syncInventory goes on after waitForSession.
SyncResumes ==
  /\ sync.state = "waiting"
  /\ \E timeIsUp \in BOOLEAN : WaitIsOver(timeIsUp)
  /\ SyncGoesTo(IF HasAuth THEN State("asked") ELSE Idle)
  /\ UNCHANGED edits

\* The vCenter is asked, or refuses.
InventoryServed ==
  /\ sync.state = "asked"
  /\ \E answer \in {Answer(inv) : inv \in Inventories} \cup {Idle} : SyncGoesTo(answer)
  /\ UNCHANGED edits

\* Faulty: the caches are updated after the rows are prepared.
ListsBeforeSync(inv) == options

\* The lists with which the merged rows are prepared.
ListsForSync(inv) == OptionsFrom(inv)

InventoryAnswered ==
  /\ sync.state = "answered"
  /\ inventory' = sync.value
  /\ options' = OptionsFrom(sync.value)
  /\ \E bare \in {Bare(rows)}, found \in {RowsFromInventory(sync.value)} :
       \E merged \in {MergeRows(bare, found)} : Show(merged, ListsForSync(sync.value))
  /\ sync' = Idle
  /\ UNCHANGED <<load, import, save, stored, edits, authVars>>

-----------------------------------------------------------------------------
(***************************************************************************)
(* Editing                                                                 *)
(***************************************************************************)

Edit(rs) ==
  /\ edits < MaxEdits /\ edits' = edits + 1
  /\ rows' = rs
  /\ UNCHANGED <<inventory, options, load, sync, import, save, stored, authVars>>

AddRow ==
  /\ Edit(Append(rows, Prepare(<<Row(Blank, Blank, Blank, Blank, 0)>>, options)[1]))
  /\ nextRowId' = nextRowId + 1

DeleteRow(i) == Edit(Kept(rows, DOMAIN rows \ {i})) /\ UNCHANGED nextRowId

\* onDatacenterChange and onClusterChange: what depends on the place is cleared.
ChangePlace(i, place) ==
  /\ Edit([rows EXCEPT ![i].place = place, ![i].pg = Blank, ![i].vlan = Blank,
                       ![i].opts = OptionsOf(options, place)])
  /\ UNCHANGED nextRowId

\* onPgChange: the VLAN is that of the portgroup, if the inventory has it.
VlanOf(place, pg, old) ==
  LET known == IF inventory = None THEN <<>> ELSE RowsFromInventory(inventory)
      found == {k \in DOMAIN known : known[k].place = place /\ known[k].pg = pg}
  IN IF pg = Blank \/ found = {} THEN old ELSE known[Least(found)].vlan

ChangePg(i, pg) ==
  /\ Edit([rows EXCEPT ![i].pg = pg, ![i].vlan = VlanOf(rows[i].place, pg, @)])
  /\ UNCHANGED nextRowId

ChangeData(i, data) == Edit([rows EXCEPT ![i].data = data]) /\ UNCHANGED nextRowId

-----------------------------------------------------------------------------
UserNext ==
  \/ ImportFile \/ SaveClick \/ SyncClick \/ AddRow
  \/ \E i \in DOMAIN rows :
       \/ DeleteRow(i)
       \/ \E place \in Places \cup {Blank} : ChangePlace(i, place)
       \/ \E pg \in Portgroups \cup {Blank} : ChangePg(i, pg)
       \/ \E data \in Data \cup {Blank} : ChangeData(i, data)

SyncNext == SyncResumes \/ InventoryServed \/ InventoryAnswered
AnswerNext == LoadServed \/ LoadAnswered \/ ImportAnswered \/ SaveServed

Next == UserNext \/ SyncNext \/ AnswerNext \/ (AuthStep /\ UNCHANGED pageVars)

\* Requests are answered, and timers fire.
Spec == Init /\ [][Next]_vars
FairSpec == Spec /\ WF_vars(SyncNext)

-----------------------------------------------------------------------------
(***************************************************************************)
(* Properties                                                              *)
(***************************************************************************)

Synced == sync.state = "answered" /\ sync' = Idle

\* "Existing user-entered subnet/gw/vrf values are preserved" (lines 107, 129): after a
\* sync every row is still there under its id, once, at its place, with its data.
SyncKeepsUserRows ==
  [][Synced => \A i \in DOMAIN rows : \E j \in DOMAIN rows' :
       /\ {k \in DOMAIN rows' : rows'[k].id = rows[i].id} = {j}
       /\ rows'[j].place = rows[i].place
       /\ rows[i].data # Blank => rows'[j].data = rows[i].data]_vars

\* The list of portgroups a row offers is that of its place in the inventory synced last,
\* whatever order loads, imports, syncs and edits came in.
ListsAreCurrent == \A i \in DOMAIN rows : rows[i].opts = OptionsOf(options, rows[i].place)

\* Portgroups of one place have names and VLANs of their own.
Separate(inv) ==
  \A i, j \in DOMAIN inv :
    i # j /\ inv[i].place = inv[j].place => inv[i].pg # inv[j].pg /\ inv[i].vlan # inv[j].vlan

\* Syncing again with the same inventory changes nothing, provided that no two portgroups of
\* a place share a VLAN: of two that do, the second sync matches one with the row the first
\* sync has made for the other.
SyncIsIdempotent ==
  inventory # None /\ Separate(inventory) =>
    LET once == MergeRows(Bare(rows), RowsFromInventory(inventory))
    IN MergeRows(once, RowsFromInventory(inventory)) = once

\* "click Save to confirm" (line 287): a save that is answered has stored the rows the page
\* sent.
SavedRowsAreStored ==
  [][save.state = "sent" /\ save' = Idle => stored' = Bare(save.value)]_vars

\* A page that considers itself authorised sends something to prove it, so that a clone
\* ticket reaches the server (plugin-context.service.ts, lines 13-15).
AuthorityIsSent == HasAuth => SessionHeaders # [session |-> None, token |-> None]

\* A sync ends, whether a session comes or not.
SyncEnds == sync # Idle ~> sync = Idle
=============================================================================
