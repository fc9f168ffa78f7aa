----------------------------- MODULE HistoryProofs -----------------------------
(***************************************************************************)
(* What the page "History" guarantees, for any runs and results, any size  *)
(* of its pages and any number of clicks, whatever the order of answers.   *)
(***************************************************************************)
EXTENDS HistoryPage, SublistProofs

-----------------------------------------------------------------------------
(* Types                                                                   *)

Row      == [id : Runs, state : States]
Drawers  == [open : BOOLEAN, selected : Runs \cup {None}, result : Runs \cup {None}, loading : BOOLEAN]
Cleanups == [id : Runs, no : Nat, gen : Nat, pc : {"sent", "working", "done", "failed"}, state : States]
Deletes  == [id : Runs, no : Nat, pc : {"sent", "done", "failed"}]
Asks     == [id : Runs, no : Nat]
Hosts    == [no : Nat, style : {"screen", "export"}]
Shots    == [no : Nat, host : Nat, backup : {"screen", "export"}]
Records  == [present : BOOLEAN, state : States, result : DOMAIN Results \cup {None}]

\* The parts of the types, as the groups of variables have them.
ListType   == /\ list \in Seq(Row) /\ Len(list) <= Cardinality(Runs) /\ gen \in Nat /\ page \in Nat \ {0}
              /\ load \in [pc : {"idle", "sent", "answered"}, rows : Seq(Row)]
              /\ Len(load.rows) <= Cardinality(Runs)
CleanType  == /\ cleaningId \in Runs \cup {None} /\ deletingId \in Runs \cup {None}
              /\ cleanups \subseteq Cleanups /\ deletes \subseteq Deletes
              /\ cleaningAll \in BOOLEAN /\ sweep \in {"idle", "sent", "done", "failed"}
PanelType  == /\ processed \in DOMAIN Results \cup {None} /\ host \in Hosts
              /\ exporting \in BOOLEAN /\ shots \subseteq Shots
DrawerType == drawer \in Drawers /\ asks \subseteq Asks
RestType   == db \in [Runs -> Records] /\ clicks \in 0..MaxClicks /\ calm \in BOOLEAN

LEMMA TypeParts == TypeOK <=> ListType /\ CleanType /\ PanelType /\ DrawerType /\ RestType
BY DEF TypeOK, ListType, CleanType, PanelType, DrawerType, RestType, Row, Drawers, Cleanups, Deletes, Asks,
       Hosts, Shots, Records

\* The same after a step.
LEMMA PartsAfter ==
  ASSUME ListType', CleanType', PanelType', DrawerType', RestType'
  PROVE  TypeOK'
BY DEF TypeOK, ListType, CleanType, PanelType, DrawerType, RestType, Row, Drawers, Cleanups, Deletes, Asks,
       Hosts, Shots, Records

\* Parts that a step leaves alone.
LEMMA PartsStay ==
  /\ ListType /\ UNCHANGED listVars => ListType'
  /\ CleanType /\ UNCHANGED cleanVars => CleanType'
  /\ PanelType /\ UNCHANGED panelVars => PanelType'
  /\ DrawerType /\ UNCHANGED drawerVars => DrawerType'
BY DEF ListType, CleanType, PanelType, DrawerType, listVars, cleanVars, panelVars, drawerVars

\* The elements of a list of rows.
LEMMA RowsOf ==
  ASSUME NEW rows \in Seq(Row)
  PROVE  /\ Len(rows) \in Nat /\ DOMAIN rows = 1..Len(rows)
         /\ \A i \in DOMAIN rows : rows[i] \in Row /\ rows[i].id \in Runs /\ rows[i].state \in States
<1>1. Len(rows) \in Nat /\ DOMAIN rows = 1..Len(rows)
  OBVIOUS
<1>2. \A i \in DOMAIN rows : rows[i] \in Row
  BY <1>1
<1>3. \A row \in Row : row.id \in Runs /\ row.state \in States
  BY DEF Row
<1> QED
  BY <1>1, <1>2, <1>3

\* What getHistory is answered with: at most a row for every run, each in its state.
LEMMA ServedType ==
  ASSUME RestType
  PROVE  /\ Served \in Seq(Row) /\ Len(Served) <= Cardinality(Runs)
         /\ \A i \in DOMAIN Served : Served[i].id \in Runs /\ Served[i].state = db[Served[i].id].state
<1> DEFINE present == {id \in Runs : db[id].present}
           n == Cardinality(present)
<1>1. present \in SUBSET Runs /\ IsFiniteSet(present) /\ n <= Cardinality(Runs)
  BY HistoryAssumption, FS_Subset
<1>2. present \in SUBSET Int
  <2>1. \A id \in Runs : id \in Int
    BY HistoryAssumption
  <2> QED
    BY <2>1
<1> HIDE DEF present
<1>3. n \in Nat /\ DOMAIN Rows = 1..n /\ \A k \in 1..n : Rows[k] \in present
  BY <1>1, <1>2, InOrderFacts DEF Rows, present
<1> HIDE DEF n
<1>4. \A k \in 1..n : Rows[k] \in Runs /\ db[Rows[k]].state \in States
  BY <1>1, <1>3 DEF RestType, Records
<1>5. Served = [k \in 1..n |-> [id |-> Rows[k], state |-> db[Rows[k]].state]]
  BY <1>3 DEF Served
<1>6. Served \in [1..n -> Row]
  BY <1>4, <1>5 DEF Row
<1>7. Served \in Seq(Row) /\ Len(Served) = n
  BY <1>3, <1>6
<1> QED
  BY <1>1, <1>4, <1>5, <1>7 DEF n

\* A load without an answer yet.
LEMMA NoRows ==
  ASSUME NEW pc \in {"idle", "sent", "answered"}
  PROVE  /\ Load(pc, <<>>) \in [pc : {"idle", "sent", "answered"}, rows : Seq(Row)]
         /\ Len(Load(pc, <<>>).rows) <= Cardinality(Runs)
<1> DEFINE none == <<>>
<1>1. none \in Seq(Row) /\ Len(none) = 0 /\ Cardinality(Runs) \in Nat
  BY HistoryAssumption, FS_CardinalityType
<1> HIDE DEF none
<1>2. Load(pc, none) \in [pc : {"idle", "sent", "answered"}, rows : Seq(Row)] /\ Load(pc, none).rows = none
  BY <1>1 DEF Load
<1>3. Len(Load(pc, none).rows) <= Cardinality(Runs)
  BY <1>1, <1>2
<1> QED
  BY <1>2, <1>3 DEF none

LEMMA InitType == Init => TypeOK
<1> SUFFICES ASSUME Init PROVE TypeOK
  OBVIOUS
<1>1. <<>> \in Seq(Row) /\ Len(<<>>) = 0 /\ Cardinality(Runs) \in Nat
  BY HistoryAssumption, FS_CardinalityType
<1>2. ListType
  BY <1>1 DEF Init, ListType, Load
<1>3. CleanType /\ PanelType /\ DrawerType
  BY DEF Init, CleanType, PanelType, DrawerType, Drawers, Closed, Hosts
<1>4. RestType
  <2>1. db \in [Runs -> Records]
    BY DEF Init, Records, States
  <2>2. clicks \in 0..MaxClicks
    BY HistoryAssumption DEF Init
  <2> QED
    BY <2>1, <2>2 DEF Init, RestType
<1> QED
  BY <1>2, <1>3, <1>4, TypeParts

\* A click counts, and calm only ever ends.
LEMMA ClickType ==
  ASSUME TypeOK, Click
  PROVE  clicks' \in 0..MaxClicks /\ clicks \in Nat
BY HistoryAssumption DEF TypeOK, Click

\* The steps of the list.
LEMMA ListSteps ==
  ASSUME TypeOK, TurnPage \/ Refresh \/ LoadServed \/ LoadAnswered \/ LoadFails
  PROVE  TypeOK'
<1>0. ListType /\ CleanType /\ PanelType /\ DrawerType /\ RestType
  BY TypeParts
<1>1. UNCHANGED <<cleanVars, panelVars, drawerVars>>
  BY DEF TurnPage, Refresh, LoadServed, LoadAnswered, LoadFails
<1>2. CleanType' /\ PanelType' /\ DrawerType'
  BY <1>0, <1>1, PartsStay
<1>3. RestType'
  <2>1. clicks' \in 0..MaxClicks
    BY <1>0, ClickType DEF TurnPage, Refresh, ClickList, LoadServed, LoadAnswered, LoadFails, RestType
  <2>2. calm' \in BOOLEAN
    <3>1. CASE Refresh
      BY <3>1, ZenonT(20) DEF Refresh
    <3>2. CASE ~Refresh
      BY <1>0, <3>2 DEF TurnPage, LoadServed, LoadAnswered, LoadFails, RestType
    <3> QED BY <3>1, <3>2
  <2>3. UNCHANGED db
    BY DEF TurnPage, Refresh, LoadServed, LoadAnswered, LoadFails
  <2> QED
    BY <1>0, <2>1, <2>2, <2>3 DEF RestType
<1>4. ListType'
  <2>0. <<>> \in Seq(Row) /\ Len(<<>>) = 0 /\ Cardinality(Runs) \in Nat
    BY HistoryAssumption, FS_CardinalityType
  <2>1. CASE TurnPage
    <3>1. PageCount(Len(list)) \in Int
      BY <1>0, HistoryAssumption DEF PageCount, ListType
    <3>2. page' \in Nat \ {0}
      BY <1>0, <2>1, <3>1 DEF TurnPage, Smaller, ListType
    <3> QED
      BY <1>0, <2>1, <3>2 DEF TurnPage, ListType
  <2>2. CASE Refresh \/ LoadFails
    <3>1. /\ load' = Load("sent", <<>>) \/ load' = Load("idle", <<>>)
          /\ UNCHANGED <<list, gen, page>>
      BY <2>2 DEF Refresh, LoadFails
    <3>2. load' \in [pc : {"idle", "sent", "answered"}, rows : Seq(Row)] /\ Len(load'.rows) <= Cardinality(Runs)
      BY <3>1, NoRows
    <3> QED
      BY <1>0, <3>1, <3>2 DEF ListType
  <2>3. CASE LoadServed
    <3>1. load' = [pc |-> "answered", rows |-> Served] /\ UNCHANGED <<list, gen, page>>
      BY <2>3 DEF LoadServed, Load
    <3> QED
      BY <1>0, <3>1, ServedType DEF ListType
  <2>4. CASE LoadAnswered
    BY <1>0, <2>0, <2>4 DEF LoadAnswered, ListLoaded, Load, ListType
  <2> QED
    BY <2>1, <2>2, <2>3, <2>4
<1> QED
  BY <1>2, <1>3, <1>4, PartsAfter

\* The steps of a clean-up of one run.
LEMMA CleanupSteps ==
  ASSUME TypeOK, NEW c \in cleanups, CleanupStarts(c) \/ CleanupEnds(c) \/ CleanupAnswered(c)
  PROVE  TypeOK'
<1>0. ListType /\ CleanType /\ PanelType /\ DrawerType /\ RestType /\ c \in Cleanups
  BY TypeParts DEF CleanType
<1>1. UNCHANGED <<panelVars, drawerVars, clicks, calm>>
  BY DEF CleanupStarts, CleanupEnds, CleanupAnswered
<1>2. PanelType' /\ DrawerType'
  BY <1>0, <1>1, PartsStay
<1>3. \A pc \in {"working", "done", "failed"} : \A state \in States :
        [c EXCEPT !.pc = pc] \in Cleanups /\ [c EXCEPT !.pc = pc, !.state = state] \in Cleanups
  BY <1>0 DEF Cleanups
<1>4. \A d \in Cleanups : Becomes(c, d) => cleanups' \subseteq Cleanups
  BY <1>0 DEF Becomes, CleanType
<1>5. CASE CleanupStarts(c)
  <2>1. cleanups' \subseteq Cleanups
    BY <1>3, <1>4, <1>5 DEF CleanupStarts, States
  <2>2. ListType'
    BY <1>0, <1>5, PartsStay DEF CleanupStarts
  <2> QED
    BY <1>0, <1>1, <1>2, <1>5, <2>1, <2>2, PartsAfter DEF CleanupStarts, CleanType, RestType
<1>6. CASE CleanupEnds(c)
  <2>1. PICK state \in Outcomes : /\ Becomes(c, [c EXCEPT !.pc = "done", !.state = state])
                                  /\ db' = [db EXCEPT ![c.id].state = state]
    BY <1>6 DEF CleanupEnds
  <2>2. state \in States
    BY DEF Outcomes
  <2>3. cleanups' \subseteq Cleanups
    BY <1>3, <1>4, <2>1, <2>2
  <2>4. db' \in [Runs -> Records]
    BY <1>0, <2>1, <2>2 DEF RestType, Records
  <2>5. ListType'
    BY <1>0, <1>6, PartsStay DEF CleanupEnds
  <2> QED
    BY <1>0, <1>1, <1>2, <1>6, <2>3, <2>4, <2>5, PartsAfter DEF CleanupEnds, CleanType, RestType
<1>7. CASE CleanupAnswered(c)
  <2>1. NormalizeCleanupState(c.state) \in States
    BY DEF NormalizeCleanupState, States
  <2>2. list' \in Seq(Row) /\ Len(list') = Len(list)
    <3>1. CASE list' = list
      BY <1>0, <3>1 DEF ListType
    <3>2. CASE list' # list
      <4> DEFINE at(i) == IF list[i].id = c.id THEN [list[i] EXCEPT !.state = NormalizeCleanupState(c.state)]
                          ELSE list[i]
      <4>1. list' = [i \in DOMAIN list |-> at(i)]
        BY <1>7, <3>2 DEF CleanupAnswered
      <4>2. list \in Seq(Row) /\ Len(list) \in Nat /\ DOMAIN list = 1..Len(list)
        BY <1>0, RowsOf DEF ListType
      <4>3. \A i \in DOMAIN list : list[i] \in Row
        BY <4>2, RowsOf
      <4>4. \A i \in DOMAIN list : at(i) \in Row
        BY <2>1, <4>3 DEF Row
      <4> HIDE DEF at
      <4>5. list' \in [1..Len(list) -> Row]
        BY <4>1, <4>2, <4>4
      <4> QED
        BY <4>2, <4>5
    <3> QED
      BY <3>1, <3>2
  <2>3. ListType'
    BY <1>0, <1>7, <2>2 DEF CleanupAnswered, ListType
  <2>4. CleanType'
    BY <1>0, <1>7 DEF CleanupAnswered, CleanType, NoLongerCleaning
  <2> QED
    BY <1>0, <1>1, <1>2, <1>7, <2>3, <2>4, PartsAfter DEF CleanupAnswered, RestType
<1> QED
  BY <1>5, <1>6, <1>7

\* The clicks that send a request about the runs of the list, and what answers them but for
\* the answer that takes a row out.
LEMMA RequestSteps ==
  ASSUME TypeOK,
         \/ \E i \in DOMAIN list : CleanupClick(i) \/ DeleteClick(i)
         \/ CleanupAllClick \/ SweepServed \/ SweepAnswered
         \/ \E d \in deletes : DeleteServed(d) \/ DeleteRefused(d)
  PROVE  TypeOK'
<1>0. ListType /\ CleanType /\ PanelType /\ DrawerType /\ RestType
  BY TypeParts
<1>1. UNCHANGED <<panelVars, drawerVars>>
  BY DEF CleanupClick, DeleteClick, CleanupAllClick, SweepServed, SweepAnswered, DeleteServed, DeleteRefused
<1>2. PanelType' /\ DrawerType'
  BY <1>0, <1>1, PartsStay
<1>3. ASSUME NEW i \in DOMAIN list, CleanupClick(i) PROVE TypeOK'
  <2>1. list[i].id \in Runs /\ clicks' \in 0..MaxClicks /\ clicks \in Nat
    BY <1>0, <1>3, RowsOf, ClickType DEF CleanupClick, ClickList, ListType
  <2>2. [id |-> list[i].id, no |-> clicks, gen |-> gen, pc |-> "sent", state |-> "pending"] \in Cleanups
    BY <1>0, <2>1 DEF Cleanups, States, ListType
  <2>3. CleanType'
    BY <1>0, <1>3, <2>1, <2>2 DEF CleanupClick, CleanType
  <2>4. calm' \in BOOLEAN
    BY <1>3, ZenonT(20) DEF CleanupClick
  <2>5. ListType'
    BY <1>0, <1>3, PartsStay DEF CleanupClick
  <2> QED
    BY <1>0, <1>2, <1>3, <2>1, <2>3, <2>4, <2>5, PartsAfter DEF CleanupClick, RestType
<1>4. ASSUME NEW i \in DOMAIN list, DeleteClick(i) PROVE TypeOK'
  <2>1. list[i].id \in Runs /\ clicks' \in 0..MaxClicks /\ clicks \in Nat
    BY <1>0, <1>4, RowsOf, ClickType DEF DeleteClick, ClickList, ListType
  <2>2. [id |-> list[i].id, no |-> clicks, pc |-> "sent"] \in Deletes
    BY <2>1 DEF Deletes
  <2>3. CleanType'
    BY <1>0, <1>4, <2>1, <2>2 DEF DeleteClick, CleanType
  <2>4. calm' \in BOOLEAN
    BY <1>4, ZenonT(20) DEF DeleteClick
  <2>5. ListType'
    BY <1>0, <1>4, PartsStay DEF DeleteClick
  <2> QED
    BY <1>0, <1>2, <1>4, <2>1, <2>3, <2>4, <2>5, PartsAfter DEF DeleteClick, RestType
<1>5. CASE CleanupAllClick
  <2>1. clicks' \in 0..MaxClicks
    BY <1>5, ClickType DEF CleanupAllClick, ClickList
  <2>2. calm' \in BOOLEAN
    BY <1>5, ZenonT(20) DEF CleanupAllClick
  <2>3. ListType'
    BY <1>0, <1>5, PartsStay DEF CleanupAllClick
  <2> QED
    BY <1>0, <1>2, <1>5, <2>1, <2>2, <2>3, PartsAfter DEF CleanupAllClick, CleanType, RestType
<1>6. CASE SweepServed
  <2>1. PICK touched \in SUBSET Runs : \E states \in [touched -> Outcomes] :
          db' = [id \in Runs |-> IF id \in touched THEN [db[id] EXCEPT !.state = states[id]] ELSE db[id]]
    BY <1>6 DEF SweepServed
  <2>2. PICK states \in [touched -> Outcomes] :
          db' = [id \in Runs |-> IF id \in touched THEN [db[id] EXCEPT !.state = states[id]] ELSE db[id]]
    BY <2>1
  <2>3. \A id \in Runs : db[id] \in Records /\ (id \in touched => states[id] \in States)
    BY <1>0 DEF RestType, Outcomes
  <2>4. \A id \in Runs : id \in touched => [db[id] EXCEPT !.state = states[id]] \in Records
    BY <2>3 DEF Records
  <2>5. db' \in [Runs -> Records]
    BY <2>2, <2>3, <2>4
  <2>6. calm' \in BOOLEAN
    BY <1>6, ZenonT(20) DEF SweepServed
  <2>7. ListType'
    BY <1>0, <1>6, PartsStay DEF SweepServed
  <2>8. CleanType'
    BY <1>0, <1>6 DEF SweepServed, CleanType
  <2> QED
    BY <1>0, <1>2, <1>6, <2>5, <2>6, <2>7, <2>8, PartsAfter DEF SweepServed, RestType
<1>7. CASE SweepAnswered
  <2>1. load' = load \/ load' = Load("sent", <<>>)
    BY <1>7 DEF SweepAnswered
  <2>3. load' \in [pc : {"idle", "sent", "answered"}, rows : Seq(Row)] /\ Len(load'.rows) <= Cardinality(Runs)
    BY <1>0, <2>1, NoRows DEF ListType
  <2> QED
    BY <1>0, <1>2, <1>7, <2>3, PartsAfter DEF SweepAnswered, ListType, CleanType, RestType
<1>8. ASSUME NEW d \in deletes, DeleteServed(d) PROVE TypeOK'
  <2>1. d \in Deletes
    BY <1>0 DEF CleanType
  <2>2. [d EXCEPT !.pc = "done"] \in Deletes /\ [d EXCEPT !.pc = "failed"] \in Deletes /\ d.id \in Runs
    BY <2>1 DEF Deletes
  <2>3. deletes' \subseteq Deletes
    BY <1>0, <1>8, <2>2 DEF DeleteServed, CleanType
  <2>4. db' \in [Runs -> Records]
    <3>1. db[d.id] \in Records
      BY <1>0, <2>2 DEF RestType
    <3>2. [db[d.id] EXCEPT !.present = FALSE, !.result = None] \in Records
      BY <3>1 DEF Records
    <3>3. db' = db \/ db' = [db EXCEPT ![d.id] = [db[d.id] EXCEPT !.present = FALSE, !.result = None]]
      BY <1>0, <1>8, <2>2, <3>1 DEF DeleteServed, RestType, Records
    <3> QED
      BY <1>0, <2>2, <3>2, <3>3 DEF RestType
  <2>5. ListType'
    BY <1>0, <1>8, PartsStay DEF DeleteServed
  <2> QED
    BY <1>0, <1>2, <1>8, <2>3, <2>4, <2>5, PartsAfter DEF DeleteServed, CleanType, RestType
<1>9. ASSUME NEW d \in deletes, DeleteRefused(d) PROVE TypeOK'
  <2>1. ListType'
    BY <1>0, <1>9, PartsStay DEF DeleteRefused
  <2> QED
    BY <1>0, <1>2, <1>9, <2>1, PartsAfter DEF DeleteRefused, CleanType, RestType
<1> QED
  BY <1>3, <1>4, <1>5, <1>6, <1>7, <1>8, <1>9

\* Laying out a result, or none.
LEMMA PanelOfType ==
  ASSUME PanelType, NEW result \in DOMAIN Results \cup {None}, PanelOf(result), UNCHANGED <<exporting, shots>>
  PROVE  PanelType'
BY DEF PanelType, PanelOf, Hosts

\* The steps of the drawer.
LEMMA DrawerSteps ==
  ASSUME TypeOK,
         \/ \E i \in DOMAIN list : SelectRun(i)
         \/ \E d \in deletes : DeleteAnswered(d)
         \/ \E a \in asks : ResultAnswered(a)
         \/ CloseDrawer
  PROVE  TypeOK'
<1>0. ListType /\ CleanType /\ PanelType /\ DrawerType /\ RestType
  BY TypeParts
<1>1. ASSUME NEW i \in DOMAIN list, SelectRun(i) PROVE TypeOK'
  <2>1. list[i].id \in Runs /\ clicks' \in 0..MaxClicks /\ clicks \in Nat
    BY <1>0, <1>1, RowsOf, ClickType DEF SelectRun, ClickList, ListType
  <2>2. drawer' = [open |-> TRUE, selected |-> list[i].id, result |-> None, loading |-> TRUE]
    BY <1>1 DEF SelectRun, DrawerOf
  <2>3. PanelType'
    BY <1>0, <1>1, <2>2, PanelOfType DEF SelectRun
  <2>4. [id |-> list[i].id, no |-> clicks] \in Asks
    BY <2>1 DEF Asks
  <2>5. DrawerType'
    BY <1>0, <1>1, <2>1, <2>2, <2>4 DEF SelectRun, DrawerType, Drawers
  <2>6. calm' \in BOOLEAN
    BY <1>1, ZenonT(20) DEF SelectRun
  <2>7. ListType' /\ CleanType'
    BY <1>0, <1>1, PartsStay DEF SelectRun
  <2> QED
    BY <1>0, <1>1, <2>1, <2>3, <2>5, <2>6, <2>7, PartsAfter DEF SelectRun, RestType
<1>2. ASSUME NEW d \in deletes, DeleteAnswered(d) PROVE TypeOK'
  <2> DEFINE places == {i \in DOMAIN list : list[i].id # d.id}
  <2>1. Kept(list, places) \in Seq(Row) /\ Len(Kept(list, places)) <= Len(list)
    <3>1. places \in SUBSET DOMAIN list /\ list \in Seq(Row)
      BY <1>0 DEF ListType
    <3> HIDE DEF places
    <3>2. /\ Kept(list, places) \in Seq(Row) /\ DOMAIN Kept(list, places) = 1..Cardinality(places)
          /\ Cardinality(places) \in Nat /\ Cardinality(places) <= Len(list)
      BY <3>1, KeptFacts
    <3>3. Len(Kept(list, places)) = Cardinality(places)
      BY <3>2
    <3> QED
      BY <3>2, <3>3
  <2>2. ListType'
    <3>1. list' = Kept(list, places) /\ UNCHANGED <<gen, page, load>>
      BY <1>2 DEF DeleteAnswered
    <3>2. Len(list) \in Nat /\ Len(Kept(list, places)) \in Nat /\ Cardinality(Runs) \in Nat
      BY <1>0, <2>1, HistoryAssumption, FS_CardinalityType DEF ListType
    <3> HIDE DEF places
    <3> QED
      BY <1>0, <2>1, <3>1, <3>2 DEF ListType
  <2>3. CleanType'
    BY <1>0, <1>2 DEF DeleteAnswered, CleanType
  <2>4. PanelType'
    BY <1>0, <1>2, PanelOfType, PartsStay DEF DeleteAnswered, panelVars
  <2>5. DrawerType'
    BY <1>0, <1>2 DEF DeleteAnswered, DrawerType, Drawers
  <2> QED
    BY <1>0, <1>2, <2>2, <2>3, <2>4, <2>5, PartsAfter DEF DeleteAnswered, RestType
<1>3. ASSUME NEW a \in asks, ResultAnswered(a) PROVE TypeOK'
  <2>1. a.id \in Runs
    BY <1>0 DEF DrawerType, Asks
  <2>2. db[a.id].result \in DOMAIN Results \cup {None}
    BY <1>0, <2>1 DEF RestType, Records
  <2>3. PanelType'
    BY <1>0, <1>3, <2>2, PanelOfType, PartsStay DEF ResultAnswered, panelVars
  <2>4. DrawerType'
    BY <1>0, <1>3, <2>1 DEF ResultAnswered, DrawerType, Drawers
  <2>5. ListType' /\ CleanType'
    BY <1>0, <1>3, PartsStay DEF ResultAnswered
  <2> QED
    BY <1>0, <1>3, <2>3, <2>4, <2>5, PartsAfter DEF ResultAnswered, RestType
<1>4. CASE CloseDrawer
  <2>1. clicks' \in 0..MaxClicks
    BY <1>4, ClickType DEF CloseDrawer
  <2>2. PanelType'
    BY <1>0, <1>4, PanelOfType DEF CloseDrawer
  <2>3. DrawerType'
    BY <1>0, <1>4 DEF CloseDrawer, DrawerType, Drawers
  <2>4. ListType' /\ CleanType'
    BY <1>0, <1>4, PartsStay DEF CloseDrawer
  <2> QED
    BY <1>0, <1>4, <2>1, <2>2, <2>3, <2>4, PartsAfter DEF CloseDrawer, RestType
<1> QED
  BY <1>1, <1>2, <1>3, <1>4

\* The steps of an export.
LEMMA ExportSteps ==
  ASSUME TypeOK, ExportPng \/ \E shot \in shots : ExportEnds(shot)
  PROVE  TypeOK'
<1>0. ListType /\ CleanType /\ PanelType /\ DrawerType /\ RestType
  BY TypeParts
<1>1. ListType' /\ CleanType' /\ DrawerType'
  BY <1>0, PartsStay DEF ExportPng, ExportEnds
<1>2. CASE ExportPng
  <2>1. clicks' \in 0..MaxClicks /\ clicks \in Nat
    BY <1>2, ClickType DEF ExportPng
  <2>2. [no |-> clicks, host |-> host.no, backup |-> host.style] \in Shots
    BY <1>0, <2>1 DEF PanelType, Hosts, Shots
  <2>3. PanelType'
    BY <1>0, <1>2, <2>2 DEF ExportPng, PanelType, Hosts
  <2> QED
    BY <1>0, <1>1, <1>2, <2>1, <2>3, PartsAfter DEF ExportPng, RestType
<1>3. ASSUME NEW shot \in shots, ExportEnds(shot) PROVE TypeOK'
  <2>1. shot.backup \in {"screen", "export"}
    BY <1>0 DEF PanelType, Shots
  <2>2. PanelType'
    BY <1>0, <1>3, <2>1 DEF ExportEnds, PanelType, Hosts
  <2> QED
    BY <1>0, <1>1, <1>3, <2>2, PartsAfter DEF ExportEnds, RestType
<1> QED
  BY <1>2, <1>3

LEMMA NextType == TypeOK /\ [Next]_vars => TypeOK'
<1> SUFFICES ASSUME TypeOK, [Next]_vars PROVE TypeOK'
  OBVIOUS
<1>1. CASE UNCHANGED vars
  BY <1>1 DEF TypeOK, vars, listVars, cleanVars, panelVars, drawerVars
<1>2. CASE Next
  BY <1>2, ListSteps, CleanupSteps, RequestSteps, DrawerSteps, ExportSteps DEF Next
<1> QED
  BY <1>1, <1>2

\* The state of the page, its requests and the server's records are well formed
\* (history.component.ts, result-panel.component.ts).
THEOREM PageTyped == Spec => []TypeOK
BY InitType, NextType, PTL DEF Spec
-----------------------------------------------------------------------------
(***************************************************************************)
(* Exports.  One export at most is under way; the styles it has kept are   *)
(* those of the screen, and the element it has changed is shown with the   *)
(* others as long as it is there.                                          *)
(***************************************************************************)

Exports ==
  /\ exporting <=> shots # {}
  /\ \A s, t \in shots : s = t
  /\ \A s \in shots : s.host <= host.no /\ s.backup = "screen"
  /\ host.style = IF \E s \in shots : s.host = host.no THEN "export" ELSE "screen"

\* A panel without a result has lost its element, and the next one is new.
LEMMA ExportsPanel ==
  ASSUME TypeOK, Exports, NEW result, PanelOf(result), UNCHANGED <<exporting, shots>>
  PROVE  Exports'
<1>0. host \in Hosts /\ shots \subseteq Shots
  BY TypeParts DEF PanelType
<1>1. CASE host' = host
  BY <1>1 DEF Exports
<1>2. CASE host' # host
  <2>1. host'.no = host.no + 1 /\ host'.style = "screen"
    BY <1>2 DEF PanelOf
  <2>2. \A s \in shots : s.host \in Nat /\ host.no \in Nat
    BY <1>0 DEF Hosts, Shots
  <2> QED
    BY <2>1, <2>2 DEF Exports
<1> QED
  BY <1>1, <1>2

LEMMA ExportsNext ==
  ASSUME TypeOK, Exports, [Next]_vars
  PROVE  Exports'
<1>0. host \in Hosts /\ shots \subseteq Shots
  BY TypeParts DEF PanelType
<1>1. CASE UNCHANGED <<host, exporting, shots>>
  BY <1>1 DEF Exports
<1>2. CASE ExportPng
  <2>1. shots = {}
    BY <1>2 DEF ExportPng, MayExport, Exports
  <2> DEFINE shot == [no |-> clicks, host |-> host.no, backup |-> host.style]
  <2>2. shots' = {shot} /\ shot.host = host.no /\ shot.backup = "screen"
    BY <1>2, <2>1 DEF ExportPng, Exports
  <2>3. host'.no = host.no /\ host'.style = "export" /\ host.no \in Nat
    BY <1>0, <1>2 DEF ExportPng, Hosts
  <2>4. exporting'
    BY <1>2 DEF ExportPng
  <2> HIDE DEF shot
  <2>5. \E s : shots' = {s} /\ s.host = host.no /\ s.backup = "screen"
    BY <2>2
  <2> QED
    BY <2>3, <2>4, <2>5 DEF Exports
<1>3. ASSUME NEW shot \in shots, ExportEnds(shot) PROVE Exports'
  <2>1. shots = {shot} /\ shots' = {} /\ exporting' = FALSE
    BY <1>3 DEF ExportEnds, Exports
  <2>2. host'.style = "screen"
    BY <1>0, <1>3, <2>1 DEF ExportEnds, Exports, Hosts
  <2> QED
    BY <2>1, <2>2 DEF Exports
<1>4. CASE \/ CloseDrawer
           \/ \E i \in DOMAIN list : SelectRun(i)
           \/ \E d \in deletes : DeleteAnswered(d)
           \/ \E a \in asks : ResultAnswered(a)
  <2>1. UNCHANGED <<exporting, shots>> /\ (UNCHANGED host \/ \E result : PanelOf(result))
    BY <1>4 DEF CloseDrawer, SelectRun, DeleteAnswered, ResultAnswered
  <2> QED
    BY <1>1, <2>1, ExportsPanel
<1>5. CASE UNCHANGED panelVars
  BY <1>1, <1>5 DEF panelVars
<1>6. CASE UNCHANGED vars
  BY <1>1, <1>6 DEF vars, panelVars
<1> QED
  BY <1>2, <1>3, <1>4, <1>5, <1>6
  DEF Next, TurnPage, Refresh, LoadServed, LoadAnswered, LoadFails, CleanupClick, DeleteClick, CleanupStarts,
      CleanupEnds, CleanupAnswered, CleanupAllClick, SweepServed, SweepAnswered, DeleteServed, DeleteRefused

-----------------------------------------------------------------------------
(* Buttons and spinners                                                    *)

Slots ==
  /\ cleaningId # None => Busy(cleaningId)
  /\ deletingId # None => \E d \in deletes : d.id = deletingId
  /\ cleaningAll <=> sweep # "idle"
  /\ drawer.loading => asks # {}

LEMMA SlotsNext ==
  ASSUME TypeOK, Slots, [Next]_vars
  PROVE  Slots'
<1>0. cleanups \subseteq Cleanups /\ deletes \subseteq Deletes /\ drawer \in Drawers /\ list \in Seq(Row)
  BY TypeParts DEF CleanType, DrawerType, ListType
<1> DEFINE Cleaning == cleaningId # None => Busy(cleaningId)
           Deleting == deletingId # None => \E d \in deletes : d.id = deletingId
           Sweeping == cleaningAll <=> sweep # "idle"
           Loading  == drawer.loading => asks # {}
<1>1. Cleaning'
  <2>1. CASE UNCHANGED <<cleaningId, cleanups>>
    BY <2>1 DEF Slots, Busy
  <2>2. ASSUME NEW i \in DOMAIN list, CleanupClick(i) PROVE Cleaning'
    <3>1. PICK c : c \in cleanups' /\ c.id = list[i].id
      <4>1. [id |-> list[i].id, no |-> clicks, gen |-> gen, pc |-> "sent", state |-> "pending"].id = list[i].id
        OBVIOUS
      <4> QED
        BY <2>2, <4>1 DEF CleanupClick
    <3> QED
      BY <2>2, <3>1 DEF CleanupClick, Busy
  <2>3. ASSUME NEW c \in cleanups, NEW d, cleanups' = (cleanups \ {c}) \cup {d}, d.id = c.id, UNCHANGED cleaningId
        PROVE  Cleaning'
    BY <2>3 DEF Busy, Slots
  <2>4. ASSUME NEW c \in cleanups, CleanupStarts(c) \/ CleanupEnds(c) PROVE Cleaning'
    <3>1. PICK d : /\ cleanups' = (cleanups \ {c}) \cup {d}
                   /\ \/ \E pc : d = [c EXCEPT !.pc = pc]
                      \/ \E state : d = [c EXCEPT !.pc = "done", !.state = state]
      BY <2>4 DEF CleanupStarts, CleanupEnds, Becomes
    <3>2. d.id = c.id
      BY <1>0, <3>1 DEF Cleanups
    <3> QED
      BY <2>3, <2>4, <3>1, <3>2 DEF CleanupStarts, CleanupEnds
  <2>5. ASSUME NEW c \in cleanups, CleanupAnswered(c) PROVE Cleaning'
    BY <2>5 DEF CleanupAnswered, NoLongerCleaning
  <2>6. CASE UNCHANGED cleanVars
    BY <2>1, <2>6 DEF cleanVars
  <2> QED
    BY <2>1, <2>2, <2>4, <2>5, <2>6
    DEF Next, vars, cleanVars, TurnPage, Refresh, LoadServed, LoadAnswered, LoadFails, DeleteClick, SelectRun,
        CleanupAllClick, SweepServed, SweepAnswered, DeleteServed, DeleteAnswered, DeleteRefused,
        ResultAnswered, CloseDrawer, ExportPng, ExportEnds
<1>2. Deleting'
  <2>1. CASE UNCHANGED <<deletingId, deletes>>
    BY <2>1 DEF Slots
  <2>2. ASSUME NEW i \in DOMAIN list, DeleteClick(i) PROVE Deleting'
    <3>1. PICK d : d \in deletes' /\ d.id = list[i].id
      <4>1. [id |-> list[i].id, no |-> clicks, pc |-> "sent"].id = list[i].id
        OBVIOUS
      <4> QED
        BY <2>2, <4>1 DEF DeleteClick
    <3> QED
      BY <2>2, <3>1 DEF DeleteClick
  <2>3. ASSUME NEW d \in deletes, DeleteServed(d) PROVE Deleting'
    <3>1. PICK e : deletes' = (deletes \ {d}) \cup {e} /\ e.id = d.id
      <4>1. [d EXCEPT !.pc = "done"].id = d.id /\ [d EXCEPT !.pc = "failed"].id = d.id
        BY <1>0 DEF Deletes
      <4> QED
        BY <2>3, <4>1 DEF DeleteServed
    <3>2. UNCHANGED deletingId
      BY <2>3 DEF DeleteServed
    <3> QED
      BY <3>1, <3>2 DEF Slots
  <2>4. ASSUME NEW d \in deletes, DeleteAnswered(d) \/ DeleteRefused(d) PROVE Deleting'
    BY <2>4 DEF DeleteAnswered, DeleteRefused
  <2>5. CASE UNCHANGED cleanVars
    BY <2>1, <2>5 DEF cleanVars
  <2> QED
    BY <2>1, <2>2, <2>3, <2>4, <2>5
    DEF Next, vars, cleanVars, TurnPage, Refresh, LoadServed, LoadAnswered, LoadFails, CleanupClick, SelectRun,
        CleanupAllClick, SweepServed, SweepAnswered, CleanupStarts, CleanupEnds, CleanupAnswered,
        ResultAnswered, CloseDrawer, ExportPng, ExportEnds
<1>3. Sweeping'
  <2>1. CASE UNCHANGED <<cleaningAll, sweep>>
    BY <2>1 DEF Slots
  <2>2. CASE CleanupAllClick
    BY <2>2 DEF CleanupAllClick
  <2>3. CASE SweepServed
    BY <2>3 DEF SweepServed, Slots
  <2>4. CASE SweepAnswered
    BY <2>4 DEF SweepAnswered
  <2>5. CASE UNCHANGED cleanVars
    BY <2>1, <2>5 DEF cleanVars
  <2> QED
    BY <2>1, <2>2, <2>3, <2>4, <2>5
    DEF Next, vars, TurnPage, Refresh, LoadServed, LoadAnswered, LoadFails, CleanupClick, SelectRun,
        CleanupStarts, CleanupEnds, CleanupAnswered, DeleteClick, DeleteServed, DeleteAnswered, DeleteRefused,
        ResultAnswered, CloseDrawer, ExportPng, ExportEnds
<1>4. Loading'
  <2>1. CASE drawer'.loading = drawer.loading /\ asks' = asks
    BY <2>1 DEF Slots
  <2>2. ASSUME NEW i \in DOMAIN list, SelectRun(i) PROVE Loading'
    BY <2>2 DEF SelectRun
  <2>3. ASSUME NEW a \in asks, ResultAnswered(a) PROVE Loading'
    BY <1>0, <2>3 DEF ResultAnswered, Drawers
  <2>4. ASSUME CloseDrawer \/ \E d \in deletes : DeleteAnswered(d) PROVE Loading'
    <3>1. drawer'.loading = drawer.loading /\ asks' = asks
      BY <1>0, <2>4 DEF CloseDrawer, DeleteAnswered, Drawers
    <3> QED
      BY <2>1, <3>1
  <2>5. CASE UNCHANGED drawerVars
    BY <2>1, <2>5 DEF drawerVars
  <2> QED
    BY <2>2, <2>3, <2>4, <2>5
    DEF Next, vars, TurnPage, Refresh, LoadServed, LoadAnswered, LoadFails, CleanupClick, DeleteClick,
        CleanupAllClick, SweepServed, SweepAnswered, CleanupStarts, CleanupEnds, CleanupAnswered,
        DeleteServed, DeleteRefused, ExportPng, ExportEnds
<1> QED
  BY <1>1, <1>2, <1>3, <1>4 DEF Slots, Busy

-----------------------------------------------------------------------------
(***************************************************************************)
(* The drawer, undisturbed: one request for a result at most is out, none  *)
(* while a record is being removed, and it is for the run in the title.    *)
(***************************************************************************)

CalmDrawer ==
  calm => /\ \A a, b \in asks : a = b
          /\ asks = {} \/ deletes = {}
          /\ drawer.open => \A a \in asks : a.id = drawer.selected
          /\ drawer.open /\ drawer.result # None => drawer.result = drawer.selected

LEMMA DrawerNext ==
  ASSUME TypeOK, CalmDrawer, [Next]_vars
  PROVE  CalmDrawer'
<1> SUFFICES ASSUME calm' PROVE CalmDrawer'
  BY DEF CalmDrawer
<1>0. deletes \subseteq Deletes /\ drawer \in Drawers /\ asks \subseteq Asks /\ list \in Seq(Row)
  BY TypeParts DEF CleanType, DrawerType, ListType
<1>1. calm
  BY DEF Next, vars, TurnPage, Refresh, LoadServed, LoadAnswered, LoadFails, CleanupClick, SelectRun,
         CleanupAllClick, SweepServed, SweepAnswered, CleanupStarts, CleanupEnds, CleanupAnswered,
         DeleteClick, DeleteServed, DeleteAnswered, DeleteRefused, ResultAnswered, CloseDrawer, ExportPng,
         ExportEnds
<1>2. /\ \A a, b \in asks : a = b
      /\ asks = {} \/ deletes = {}
      /\ drawer.open => \A a \in asks : a.id = drawer.selected
      /\ drawer.open /\ drawer.result # None => drawer.result = drawer.selected
  BY <1>1 DEF CalmDrawer
<1>3. CASE UNCHANGED <<drawer, asks, deletes>>
  BY <1>2, <1>3 DEF CalmDrawer
<1>4. ASSUME NEW i \in DOMAIN list, SelectRun(i) PROVE CalmDrawer'
  <2>1. asks = {} /\ deletes = {} /\ deletes' = deletes
    BY <1>4 DEF SelectRun, cleanVars
  <2>2. drawer'.selected = list[i].id /\ drawer'.result = None
    BY <1>4 DEF SelectRun, DrawerOf
  <2>3. PICK a : asks' = {a} /\ a.id = list[i].id
    <3>1. [id |-> list[i].id, no |-> clicks].id = list[i].id
      OBVIOUS
    <3> QED
      BY <1>4, <2>1, <3>1 DEF SelectRun
  <2> QED
    BY <2>1, <2>2, <2>3 DEF CalmDrawer
<1>5. ASSUME NEW a \in asks, ResultAnswered(a) PROVE CalmDrawer'
  <2>1. asks' = {} /\ deletes' = deletes
    BY <1>2, <1>5 DEF ResultAnswered, cleanVars
  <2>2. drawer'.open = drawer.open /\ drawer'.selected = drawer.selected
    BY <1>0, <1>5 DEF ResultAnswered, Drawers
  <2>3. drawer'.result = a.id \/ drawer'.result = drawer.result
    BY <1>0, <1>5 DEF ResultAnswered, Drawers
  <2> QED
    BY <1>2, <2>1, <2>2, <2>3 DEF CalmDrawer
<1>6. CASE CloseDrawer
  <2>1. drawer'.open = FALSE /\ asks' = asks /\ deletes' = deletes
    BY <1>0, <1>6 DEF CloseDrawer, Drawers, cleanVars
  <2> QED
    BY <1>2, <2>1 DEF CalmDrawer
<1>7. ASSUME NEW d \in deletes, DeleteAnswered(d) PROVE CalmDrawer'
  <2>1. asks = {} /\ asks' = {}
    BY <1>2, <1>7 DEF DeleteAnswered
  <2>2. drawer' = drawer \/ drawer'.result = None
    BY <1>0, <1>7 DEF DeleteAnswered, Drawers
  <2> QED
    BY <1>2, <2>1, <2>2 DEF CalmDrawer
<1>8. ASSUME NEW i \in DOMAIN list, DeleteClick(i) PROVE CalmDrawer'
  <2>1. asks = {} /\ asks' = {} /\ drawer' = drawer
    BY <1>8 DEF DeleteClick, drawerVars
  <2> QED
    BY <1>2, <2>1 DEF CalmDrawer
<1>9. ASSUME NEW d \in deletes, DeleteServed(d) \/ DeleteRefused(d) PROVE CalmDrawer'
  <2>1. asks = {} /\ asks' = {} /\ drawer' = drawer
    BY <1>2, <1>9 DEF DeleteServed, DeleteRefused, drawerVars
  <2> QED
    BY <1>2, <2>1 DEF CalmDrawer
<1> QED
  BY <1>3, <1>4, <1>5, <1>6, <1>7, <1>8, <1>9
  DEF Next, vars, cleanVars, drawerVars, TurnPage, Refresh, LoadServed, LoadAnswered, LoadFails, CleanupClick,
      CleanupAllClick, SweepServed, SweepAnswered, CleanupStarts, CleanupEnds, CleanupAnswered, ExportPng,
      ExportEnds
-----------------------------------------------------------------------------
(***************************************************************************)
(* The rows, undisturbed.  A load and a clean-up of all runs are alone; of *)
(* the clean-ups of single runs there is one to a run at most.  A row      *)
(* shows the state the server has, or a clean-up of its run has ended      *)
(* whose answer, made for this very list, will bring the state to it.      *)
(***************************************************************************)

LoadAlone  == load.pc # "idle" => cleanups = {} /\ deletes = {} /\ sweep = "idle"
SweepAlone == sweep # "idle" => cleanups = {} /\ deletes = {} /\ sweep # "failed"
RowsFresh  == load.pc = "answered" =>
                \A i \in DOMAIN load.rows : load.rows[i].state = db[load.rows[i].id].state

Matches(c) == /\ c.gen = gen
              /\ c.pc = "done" => c.state = db[c.id].state /\ c.state \in Outcomes
OneEach    == /\ \A c, d \in cleanups : c.id = d.id => c = d
              /\ \A c \in cleanups : Matches(c)

RowShows(i) == \/ list[i].state = db[list[i].id].state
               \/ \E c \in cleanups : c.id = list[i].id /\ c.pc = "done"
RowsShow    == load.pc = "idle" /\ sweep # "done" => \A i \in DOMAIN list : RowShows(i)

Undisturbed == LoadAlone /\ SweepAlone /\ RowsFresh /\ OneEach /\ RowsShow
CalmList    == calm => Undisturbed

\* Steps of the list and of all runs at once.
LEMMA LoadSteps ==
  ASSUME TypeOK, Slots, Undisturbed, calm',
         \/ Refresh \/ LoadServed \/ LoadAnswered \/ LoadFails
         \/ CleanupAllClick \/ SweepServed \/ SweepAnswered
  PROVE  Undisturbed'
<1>0. RestType /\ (cleaningAll <=> sweep # "idle")
  BY TypeParts DEF Slots
<1> USE DEF Undisturbed
<1>1. CASE Refresh
  <2>1. /\ cleanups = {} /\ deletes = {} /\ sweep = "idle" /\ UNCHANGED <<cleanups, deletes, sweep>>
        /\ load'.pc = "sent"
    BY <1>0, <1>1 DEF Refresh, Load, cleanVars
  <2> QED
    BY <2>1 DEF LoadAlone, SweepAlone, RowsFresh, OneEach, RowsShow
<1>2. CASE LoadServed
  <2>1. load' = Load("answered", Served) /\ UNCHANGED <<list, gen, cleanups, deletes, sweep, db>> /\ load.pc = "sent"
    BY <1>2 DEF LoadServed, cleanVars
  <2>2. load'.pc = "answered" /\ load'.rows = Served
    BY <2>1 DEF Load
  <2>3. RowsFresh'
    BY <1>0, <2>1, <2>2, ServedType DEF RowsFresh
  <2> QED
    BY <2>1, <2>2, <2>3 DEF LoadAlone, SweepAlone, OneEach, RowsShow, Matches
<1>3. CASE LoadAnswered
  <2>1. /\ list' = load.rows /\ load'.pc = "idle" /\ load.pc = "answered"
        /\ UNCHANGED <<cleanups, deletes, sweep, db>>
    BY <1>3 DEF LoadAnswered, ListLoaded, Load, cleanVars
  <2> QED
    BY <2>1 DEF LoadAlone, SweepAlone, RowsFresh, OneEach, RowsShow, RowShows
<1>4. CASE LoadFails
  BY <1>4 DEF LoadFails
<1>5. CASE CleanupAllClick
  <2>1. /\ cleanups = {} /\ deletes = {} /\ sweep = "idle" /\ sweep' = "sent" /\ load.pc = "idle"
        /\ UNCHANGED <<list, gen, load, cleanups, deletes, db>>
    BY <1>0, <1>5 DEF CleanupAllClick, listVars
  <2> QED
    BY <2>1 DEF LoadAlone, SweepAlone, RowsFresh, OneEach, RowsShow, RowShows
<1>6. CASE SweepServed
  <2>1. /\ sweep = "sent" /\ sweep' = "done" /\ UNCHANGED <<list, gen, load, cleanups, deletes>>
    BY <1>6 DEF SweepServed, listVars
  <2> QED
    BY <2>1 DEF LoadAlone, SweepAlone, RowsFresh, OneEach, RowsShow
<1>7. CASE SweepAnswered
  <2>1. /\ sweep = "done" /\ sweep' = "idle" /\ load'.pc = "sent" /\ UNCHANGED <<cleanups, deletes>>
    BY <1>7 DEF SweepAnswered, SweepAlone, Load
  <2> QED
    BY <2>1 DEF LoadAlone, SweepAlone, RowsFresh, OneEach, RowsShow
<1> QED
  BY <1>1, <1>2, <1>3, <1>4, <1>5, <1>6, <1>7

\* Steps of the clean-up of one run.
LEMMA RunSteps ==
  ASSUME TypeOK, Slots, Undisturbed, calm',
         \/ \E i \in DOMAIN list : CleanupClick(i)
         \/ \E c \in cleanups : CleanupStarts(c) \/ CleanupEnds(c) \/ CleanupAnswered(c)
  PROVE  Undisturbed'
<1>0. ListType /\ CleanType /\ RestType /\ (cleaningAll <=> sweep # "idle")
  BY TypeParts DEF Slots
<1>1. /\ list \in Seq(Row) /\ \A i \in DOMAIN list : list[i] \in Row /\ list[i].id \in Runs
      /\ cleanups \subseteq Cleanups
  BY <1>0, RowsOf DEF ListType, CleanType
<1> USE DEF Undisturbed
<1>2. ASSUME NEW i \in DOMAIN list, CleanupClick(i) PROVE Undisturbed'
  <2>1. /\ load.pc = "idle" /\ deletes = {} /\ sweep = "idle" /\ \A c \in cleanups : c.id # list[i].id
        /\ UNCHANGED <<list, gen, load, deletes, sweep, db>>
    BY <1>0, <1>2 DEF CleanupClick, Busy, listVars
  <2>2. PICK n : cleanups' = cleanups \cup {n} /\ n.id = list[i].id /\ n.gen = gen /\ n.pc = "sent"
    <3> DEFINE m == [id |-> list[i].id, no |-> clicks, gen |-> gen, pc |-> "sent", state |-> "pending"]
    <3>1. m.id = list[i].id /\ m.gen = gen /\ m.pc = "sent"
      OBVIOUS
    <3>2. cleanups' = cleanups \cup {m}
      BY <1>2 DEF CleanupClick
    <3> QED
      BY <3>1, <3>2
  <2>3. OneEach'
    BY <2>1, <2>2 DEF OneEach, Matches
  <2>4. RowsShow'
    BY <2>1, <2>2 DEF RowsShow, RowShows
  <2> QED
    BY <2>1, <2>3, <2>4 DEF LoadAlone, SweepAlone, RowsFresh
<1>3. ASSUME NEW c \in cleanups PROVE load.pc = "idle" /\ sweep = "idle"
  BY DEF LoadAlone, SweepAlone
<1>4. ASSUME NEW c \in cleanups, CleanupStarts(c) PROVE Undisturbed'
  <2>1. /\ load.pc = "idle" /\ sweep = "idle" /\ c.pc = "sent" /\ c \in Cleanups /\ c.gen = gen
        /\ UNCHANGED <<list, gen, load, deletes, sweep, db>>
    BY <1>1, <1>3, <1>4 DEF CleanupStarts, listVars, OneEach, Matches
  <2>2. PICK d : /\ cleanups' = (cleanups \ {c}) \cup {d}
                 /\ \/ db[c.id].state = "cleanup" /\ d = [c EXCEPT !.pc = "done", !.state = "cleanup"]
                    \/ \E pc \in {"working", "failed"} : d = [c EXCEPT !.pc = pc]
    BY <1>4 DEF CleanupStarts, Becomes
  <2>3. /\ d.id = c.id /\ d.gen = gen
        /\ d.pc = "done" => d.state = db[d.id].state /\ d.state \in Outcomes
    BY <2>1, <2>2 DEF Cleanups, Outcomes, States
  <2>4. OneEach'
    BY <2>1, <2>2, <2>3 DEF OneEach, Matches
  <2>5. RowsShow'
    BY <2>1, <2>2 DEF RowsShow, RowShows
  <2> QED
    BY <2>1, <2>4, <2>5 DEF LoadAlone, SweepAlone, RowsFresh
<1>5. ASSUME NEW c \in cleanups, CleanupEnds(c) PROVE Undisturbed'
  <2>1. /\ load.pc = "idle" /\ sweep = "idle" /\ c.pc = "working" /\ c \in Cleanups /\ c.gen = gen
        /\ UNCHANGED <<list, gen, load, deletes, sweep>>
    BY <1>1, <1>3, <1>5 DEF CleanupEnds, listVars, OneEach, Matches
  <2>0. PICK state \in Outcomes :
             /\ cleanups' = (cleanups \ {c}) \cup {[c EXCEPT !.pc = "done", !.state = state]}
             /\ db' = [db EXCEPT ![c.id].state = state]
    BY <1>5 DEF CleanupEnds, Becomes
  <2>2. PICK d : /\ cleanups' = (cleanups \ {c}) \cup {d}
                 /\ d = [c EXCEPT !.pc = "done", !.state = state]
                 /\ db' = [db EXCEPT ![c.id].state = state]
    BY <2>0
  <2>3. d.id = c.id /\ d.gen = gen /\ d.pc = "done" /\ d.state = state
    BY <2>1, <2>2 DEF Cleanups
  <2>4. /\ db'[c.id].state = state
        /\ \A id \in Runs : id # c.id => db'[id].state = db[id].state
    BY <1>0, <2>1, <2>2 DEF RestType, Records, Cleanups
  <2>5. OneEach'
    <3>1. \A e \in cleanups : e # c => e.id # c.id /\ e.id \in Runs /\ Matches(e)
      BY <1>1 DEF OneEach, Cleanups
    <3>2. \A e \in cleanups' : e = d \/ (e \in cleanups /\ e # c)
      BY <2>2
    <3>3. \A e \in cleanups' : Matches(e)'
      BY <2>1, <2>2, <2>3, <2>4, <3>1, <3>2 DEF Matches
    <3>4. \A e, f \in cleanups' : e.id = f.id => e = f
      BY <2>3, <3>1, <3>2 DEF OneEach
    <3> QED
      BY <3>3, <3>4 DEF OneEach
  <2>6. RowsShow'
    <3> SUFFICES ASSUME NEW i \in DOMAIN list' PROVE RowShows(i)'
      BY DEF RowsShow
    <3>1. i \in DOMAIN list /\ list'[i] = list[i] /\ list[i].id \in Runs /\ RowShows(i)
      BY <1>1, <2>1 DEF RowsShow
    <3>2. CASE list[i].id = c.id
      BY <2>2, <2>3, <3>1, <3>2 DEF RowShows
    <3>3. CASE list[i].id # c.id
      BY <2>2, <2>4, <3>1, <3>3 DEF RowShows
    <3> QED
      BY <3>2, <3>3
  <2> QED
    BY <2>1, <2>5, <2>6 DEF LoadAlone, SweepAlone, RowsFresh
<1>6. ASSUME NEW c \in cleanups, CleanupAnswered(c) PROVE Undisturbed'
  <2>1. /\ load.pc = "idle" /\ sweep = "idle" /\ c \in Cleanups /\ Matches(c)
        /\ cleanups' = cleanups \ {c} /\ UNCHANGED <<gen, load, deletes, sweep, db>>
    BY <1>1, <1>3, <1>6 DEF CleanupAnswered, OneEach
  <2>2. OneEach'
    BY <2>1 DEF OneEach, Matches
  <2>3. RowsShow'
    <3> SUFFICES ASSUME NEW i \in DOMAIN list' PROVE RowShows(i)'
      BY DEF RowsShow
    <3>1. CASE c.pc = "done"
      <4>1. list' = [j \in DOMAIN list |-> IF list[j].id = c.id
                                           THEN [list[j] EXCEPT !.state = NormalizeCleanupState(c.state)]
                                           ELSE list[j]]
        BY <1>6, <2>1, <3>1 DEF CleanupAnswered, Matches
      <4>2. NormalizeCleanupState(c.state) = db[c.id].state
        BY <2>1, <3>1 DEF Matches, NormalizeCleanupState, Outcomes, States
      <4>3. i \in DOMAIN list /\ list[i] \in Row /\ RowShows(i)
        BY <1>1, <2>1, <4>1 DEF RowsShow
      <4>4. CASE list[i].id = c.id
        <5>1. list'[i] = [list[i] EXCEPT !.state = db[c.id].state]
          BY <4>1, <4>2, <4>3, <4>4
        <5>2. list'[i].state = db[c.id].state /\ list'[i].id = c.id
          BY <4>3, <4>4, <5>1 DEF Row
        <5> QED
          BY <2>1, <5>2 DEF RowShows
      <4>5. CASE list[i].id # c.id
        <5>1. list'[i] = list[i]
          BY <4>1, <4>3, <4>5
        <5> QED
          BY <2>1, <4>3, <4>5, <5>1 DEF RowShows
      <4> QED
        BY <4>4, <4>5
    <3>2. CASE c.pc # "done"
      <4>1. list' = list
        BY <1>6, <3>2 DEF CleanupAnswered
      <4>2. RowShows(i)
        BY <2>1, <4>1 DEF RowsShow
      <4> QED
        BY <2>1, <3>2, <4>1, <4>2 DEF RowShows
    <3> QED
      BY <3>1, <3>2
  <2> QED
    BY <2>1, <2>2, <2>3 DEF LoadAlone, SweepAlone, RowsFresh
<1> QED
  BY <1>2, <1>4, <1>5, <1>6

\* Steps of the removal of a record.
LEMMA RemovalSteps ==
  ASSUME TypeOK, Slots, Undisturbed, calm',
         \/ \E i \in DOMAIN list : DeleteClick(i)
         \/ \E d \in deletes : DeleteServed(d) \/ DeleteAnswered(d) \/ DeleteRefused(d)
  PROVE  Undisturbed'
<1>0. ListType /\ CleanType /\ RestType /\ (cleaningAll <=> sweep # "idle")
  BY TypeParts DEF Slots
<1>1. /\ list \in Seq(Row) /\ \A i \in DOMAIN list : list[i].id \in Runs
      /\ cleanups \subseteq Cleanups /\ deletes \subseteq Deletes
  BY <1>0, RowsOf DEF ListType, CleanType
<1> USE DEF Undisturbed
<1>2. ASSUME NEW i \in DOMAIN list, DeleteClick(i) PROVE Undisturbed'
  <2>1. /\ load.pc = "idle" /\ cleanups = {} /\ sweep = "idle"
        /\ UNCHANGED <<list, gen, load, cleanups, sweep, db>>
    BY <1>0, <1>2 DEF DeleteClick, listVars
  <2> QED
    BY <2>1 DEF LoadAlone, SweepAlone, RowsFresh, OneEach, RowsShow, RowShows
<1>3. ASSUME NEW d \in deletes PROVE load.pc = "idle" /\ sweep = "idle"
  BY DEF LoadAlone, SweepAlone
<1>4. ASSUME NEW d \in deletes, DeleteServed(d) PROVE Undisturbed'
  <2>1. load.pc = "idle" /\ sweep = "idle" /\ UNCHANGED <<list, gen, load, cleanups, sweep>>
    BY <1>3, <1>4 DEF DeleteServed, listVars
  <2>2. \A id \in Runs : db'[id].state = db[id].state
    BY <1>0, <1>1, <1>4, SMTT(30) DEF DeleteServed, RestType, Records, Deletes
  <2>3. OneEach'
    <3>1. \A c \in cleanups : c.id \in Runs
      BY <1>1 DEF Cleanups
    <3> QED
      BY <2>1, <2>2, <3>1 DEF OneEach, Matches
  <2>4. RowsShow'
    BY <1>1, <2>1, <2>2 DEF RowsShow, RowShows
  <2> QED
    BY <2>1, <2>3, <2>4 DEF LoadAlone, SweepAlone, RowsFresh
<1>5. ASSUME NEW d \in deletes, DeleteRefused(d) PROVE Undisturbed'
  <2>1. load.pc = "idle" /\ sweep = "idle" /\ UNCHANGED <<list, gen, load, cleanups, sweep, db>>
    BY <1>3, <1>5 DEF DeleteRefused, listVars
  <2> QED
    BY <2>1 DEF LoadAlone, SweepAlone, RowsFresh, OneEach, Matches, RowsShow, RowShows
<1>6. ASSUME NEW d \in deletes, DeleteAnswered(d) PROVE Undisturbed'
  <2> DEFINE places == {i \in DOMAIN list : list[i].id # d.id}
  <2>1. /\ load.pc = "idle" /\ sweep = "idle" /\ UNCHANGED <<gen, load, cleanups, sweep, db>>
        /\ list' = Kept(list, places)
    BY <1>3, <1>6 DEF DeleteAnswered
  <2>2. \A k \in DOMAIN list' : \E i \in DOMAIN list : list'[k] = list[i]
    <3>1. places \in SUBSET DOMAIN list
      OBVIOUS
    <3> HIDE DEF places
    <3>2. /\ DOMAIN list' = 1..Cardinality(places)
          /\ \A k \in 1..Cardinality(places) :
               InOrder(places)[k] \in places /\ list'[k] = list[InOrder(places)[k]]
      BY <1>1, <2>1, <3>1, KeptFacts
    <3> QED
      BY <3>1, <3>2
  <2>3. RowsShow'
    BY <2>1, <2>2 DEF RowsShow, RowShows
  <2> QED
    BY <2>1, <2>3 DEF LoadAlone, SweepAlone, RowsFresh, OneEach, Matches
<1> QED
  BY <1>2, <1>4, <1>5, <1>6

LEMMA CalmListNext ==
  ASSUME TypeOK, Slots, CalmList, [Next]_vars
  PROVE  CalmList'
<1> SUFFICES ASSUME calm' PROVE Undisturbed'
  BY DEF CalmList
<1>1. calm
  BY DEF Next, vars, TurnPage, Refresh, LoadServed, LoadAnswered, LoadFails, CleanupClick, SelectRun,
         CleanupAllClick, SweepServed, SweepAnswered, CleanupStarts, CleanupEnds, CleanupAnswered,
         DeleteClick, DeleteServed, DeleteAnswered, DeleteRefused, ResultAnswered, CloseDrawer, ExportPng,
         ExportEnds
<1>2. Undisturbed
  BY <1>1 DEF CalmList
<1>3. CASE UNCHANGED <<list, gen, load, cleanups, deletes, sweep, db>>
  BY <1>2, <1>3
  DEF Undisturbed, LoadAlone, SweepAlone, RowsFresh, OneEach, Matches, RowsShow, RowShows
<1>4. CASE \/ TurnPage \/ \E i \in DOMAIN list : SelectRun(i)
           \/ \E a \in asks : ResultAnswered(a)
           \/ CloseDrawer \/ ExportPng \/ \E shot \in shots : ExportEnds(shot)
           \/ UNCHANGED vars
  BY <1>3, <1>4 DEF TurnPage, SelectRun, ResultAnswered, CloseDrawer, ExportPng, ExportEnds, vars, listVars,
                    cleanVars
<1> QED
  BY <1>2, <1>4, LoadSteps, RunSteps, RemovalSteps DEF Next
-----------------------------------------------------------------------------
(***************************************************************************)
(* Together, the parts are inductive, and each property follows.           *)
(***************************************************************************)

PageInv == TypeOK /\ Exports /\ Slots /\ CalmDrawer /\ CalmList

LEMMA PageInit == Init => PageInv
<1> SUFFICES ASSUME Init PROVE PageInv
  OBVIOUS
<1>1. TypeOK
  BY InitType
<1>2. Exports
  BY DEF Init, Exports
<1>3. Slots
  BY DEF Init, Slots, Closed
<1>4. CalmDrawer
  BY DEF Init, CalmDrawer, Closed
<1>5. CalmList
  BY DEF Init, Load, CalmList, Undisturbed, LoadAlone, SweepAlone, RowsFresh, OneEach, RowsShow
<1> QED
  BY <1>1, <1>2, <1>3, <1>4, <1>5 DEF PageInv

LEMMA PageNext == PageInv /\ [Next]_vars => PageInv'
<1> SUFFICES ASSUME PageInv, [Next]_vars PROVE PageInv'
  OBVIOUS
<1>1. TypeOK /\ Exports /\ Slots /\ CalmDrawer /\ CalmList
  BY DEF PageInv
<1>2. TypeOK' /\ Exports' /\ Slots' /\ CalmDrawer' /\ CalmList'
  BY <1>1, NextType, ExportsNext, SlotsNext, DrawerNext, CalmListNext
<1> QED
  BY <1>2 DEF PageInv

LEMMA PageCorrect == Spec => []PageInv
BY PageInit, PageNext, PTL DEF Spec

\* A disabled button and a spinner always have a request out whose answer ends them
\* (onCleanupRun, onCleanupAll, onDeleteHistory, onSelectRun).
THEOREM NoSpinner == Spec => []NoSpinnerForNothing
<1>1. PageInv => NoSpinnerForNothing
  BY DEF PageInv, Slots, Exports, NoSpinnerForNothing
<1> QED
  BY <1>1, PageCorrect, PTL

\* The styles of the screen are back after any exports, whichever results were shown and
\* closed while they ran (exportMatrixPng).
THEOREM StylesAreRestored == Spec => []StylesRestored
<1>1. PageInv => StylesRestored
  BY DEF PageInv, Exports, StylesRestored
<1> QED
  BY <1>1, PageCorrect, PTL

\* With requests that do not disturb each other, the drawer never shows a result of
\* another run than its title says (onSelectRun, onDeleteHistory).
THEOREM ResultOfSelected == Spec => []ResultIsOfSelected
<1>1. PageInv => ResultIsOfSelected
  BY DEF PageInv, CalmDrawer, ResultIsOfSelected
<1> QED
  BY <1>1, PageCorrect, PTL

\* With requests that do not disturb each other, and all of them answered, every row
\* shows the clean-up state of the server (loadHistory, onCleanupRun, onCleanupAll).
THEOREM ShownStateServers == Spec => []ShownStateIsServers
<1>1. PageInv => ShownStateIsServers
  BY DEF PageInv, CalmList, Undisturbed, RowsShow, RowShows, ShownStateIsServers
<1> QED
  BY <1>1, PageCorrect, PTL
================================================================================
