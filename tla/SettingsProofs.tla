---------------------------- MODULE SettingsProofs ----------------------------
(***************************************************************************)
(* What the pages "Testsuite", "Custom Step Test" and "Config" guarantee,  *)
(* for any cases, suites, rules, files and passwords and any number of     *)
(* clicks.                                                                 *)
(***************************************************************************)
EXTENDS SettingsPages, SublistProofs, SequenceTheorems

-----------------------------------------------------------------------------
(* Tables of suites                                                        *)

\* What is in a table of suites, and what makes a function one.
LEMMA InTable ==
  ASSUME NEW t \in SuiteTables
  PROVE  /\ DOMAIN t \subseteq Names /\ t = [n \in DOMAIN t |-> t[n]]
         /\ \A n \in DOMAIN t : t[n] \in Contents
BY DEF SuiteTables

LEMMA InChosen ==
  ASSUME NEW a \in Chosen
  PROVE  /\ DOMAIN a \subseteq Cases /\ a = [c \in DOMAIN a |-> a[c]]
         /\ \A c \in DOMAIN a : a[c] \in Actions
BY DEF Chosen

\* Tables and choices that functions of the page make.
LEMMA TableOf ==
  ASSUME NEW N \in SUBSET Names, NEW t \in [N -> Contents]
  PROVE  t \in SuiteTables
BY DEF SuiteTables

LEMMA ChosenOf ==
  ASSUME NEW S \in SUBSET Cases, NEW a \in [S -> Actions]
  PROVE  a \in Chosen
BY DEF Chosen

LEMMA ContentsOf ==
  ASSUME NEW S \in SUBSET Cases, S # {}, NEW a \in [S -> Actions]
  PROVE  a \in Contents
<1>1. a \in Chosen
  BY ChosenOf
<1>2. a \notin [{} -> Actions]
  <2>1. DOMAIN a = S
    OBVIOUS
  <2> QED BY <2>1
<1> QED
  BY <1>1, <1>2 DEF Contents

\* The empty table, and an editor without choices.
LEMMA NoSuitesType == NoSuites \in SuiteTables
<1>1. NoSuites \in [{} -> Contents]
  BY DEF NoSuites
<1> QED
  BY <1>1, TableOf

Editors == [name : Names \cup {NoName}, selected : SUBSET Cases, actions : Chosen]

LEMMA EmptyEditorType == EmptyEditor \in Editors
<1>1. [c \in {} |-> "ALLOW"] \in [{} -> Actions]
  OBVIOUS
<1>2. [c \in {} |-> "ALLOW"] \in Chosen
  BY <1>1, ChosenOf
<1> QED
  BY <1>2 DEF EmptyEditor, Editors

\* Selecting and clearing cases keeps the editor well formed.
LEMMA SelectingType ==
  ASSUME NEW ed \in Editors, NEW S \in SUBSET Cases
  PROVE  Selecting(ed, S) \in Editors
<1> DEFINE a == [c \in DOMAIN ed.actions \cup S |-> IF c \in DOMAIN ed.actions THEN ed.actions[c] ELSE "ALLOW"]
<1>1. ed.actions \in Chosen /\ ed.selected \in SUBSET Cases
  BY DEF Editors
<1>2. DOMAIN ed.actions \cup S \in SUBSET Cases
  BY <1>1, InChosen
<1>3. a \in [DOMAIN ed.actions \cup S -> Actions]
  BY <1>1, InChosen DEF Actions
<1>4. a \in Chosen
  BY <1>2, <1>3, ChosenOf
<1>5. Selecting(ed, S) = [ed EXCEPT !.selected = ed.selected \cup S, !.actions = a]
  BY DEF Selecting, Editors
<1> HIDE DEF a
<1> QED
  BY <1>1, <1>4, <1>5 DEF Editors

LEMMA ClearingType ==
  ASSUME NEW ed \in Editors, NEW S \in SUBSET Cases
  PROVE  Clearing(ed, S) \in Editors
<1> DEFINE a == [c \in DOMAIN ed.actions \ S |-> ed.actions[c]]
<1>1. ed.actions \in Chosen /\ ed.selected \in SUBSET Cases
  BY DEF Editors
<1>2. DOMAIN ed.actions \ S \in SUBSET Cases
  BY <1>1, InChosen
<1>3. a \in [DOMAIN ed.actions \ S -> Actions]
  BY <1>1, InChosen
<1>4. a \in Chosen
  BY <1>2, <1>3, ChosenOf
<1>5. Clearing(ed, S) = [ed EXCEPT !.selected = ed.selected \ S, !.actions = a]
  BY DEF Clearing, Editors, Restrict
<1> HIDE DEF a
<1> QED
  BY <1>1, <1>4, <1>5 DEF Editors

\* The table a save sends, and the one a removal sends.
LEMMA UpdatedType ==
  ASSUME NEW t \in SuiteTables, NEW ed \in Editors, ed.name \in Names, ed.selected # {}
  PROVE  Updated(t, ed) \in SuiteTables
<1> DEFINE content == Content(ed)
<1>1. content \in [ed.selected -> Actions]
  BY InChosen DEF Content, Editors, Actions
<1>2. content \in Contents
  BY <1>1, ContentsOf DEF Editors
<1> HIDE DEF content
<1>3. With1(t, ed.name, content) \in [DOMAIN t \cup {ed.name} -> Contents]
  BY <1>2, InTable DEF With1
<1>4. DOMAIN t \cup {ed.name} \in SUBSET Names
  BY InTable
<1>5. With1(t, ed.name, content) \in SuiteTables
  BY <1>3, <1>4, TableOf
<1> QED
  BY <1>5 DEF Updated, content

LEMMA RemovedType ==
  ASSUME NEW t \in SuiteTables, NEW name \in Names
  PROVE  Restrict(t, DOMAIN t \ {name}) \in SuiteTables
<1>1. Restrict(t, DOMAIN t \ {name}) \in [DOMAIN t \ {name} -> Contents]
  BY InTable DEF Restrict
<1> QED
  BY <1>1, InTable, TableOf

-----------------------------------------------------------------------------
(* Types of the page "Testsuite"                                           *)

Requests == [kind : {"load", "catalog", "save", "delete"}, no : Nat,
             pc : {"sent", "done", "failed"}, name : Names \cup {NoName}, value : SuiteTables]

LEMMA SuiteInitType == SuiteInit => SuiteTypeOK
<1> SUFFICES ASSUME SuiteInit PROVE SuiteTypeOK
  OBVIOUS
<1>1. EmptyEditor \in Editors /\ NoSuites \in SuiteTables
  BY EmptyEditorType, NoSuitesType
<1>2. suiteRequests \subseteq Requests
  BY <1>1 DEF SuiteInit, Request, Requests
<1> QED
  BY <1>1, <1>2, SuiteAssumption DEF SuiteInit, SuiteTypeOK, Editors, Requests

\* What the filters let pass is part of the catalog.
LEMMA FilteredPart ==
  ASSUME NEW S, NEW f, NEW ed
  PROVE  Filtered(S, f, ed) \subseteq S
BY DEF Filtered

\* A step of the editor, which touches the editor and the list alone.
LEMMA EditType ==
  ASSUME SuiteTypeOK, editor' \in Editors, filtered' \subseteq testcases',
         testcases' = testcases, filter' \in [pass : SUBSET Cases, onlySelected : BOOLEAN],
         UNCHANGED <<suites, suiteRequests, storedSuites, suiteCalm>>
  PROVE  SuiteTypeOK'
BY DEF SuiteTypeOK, Editors

LEMMA EditsType ==
  ASSUME SuiteTypeOK, NEW ed \in Editors, Edits(ed)
  PROVE  SuiteTypeOK'
BY EditType, FilteredPart DEF Edits, SuiteTypeOK

LEMMA SelectsType ==
  ASSUME SuiteTypeOK, NEW ed \in Editors, Selects(ed)
  PROVE  SuiteTypeOK'
BY EditType, FilteredPart DEF Selects, FilteredAfter, SuiteTypeOK

\* Requests that are sent are well formed.
LEMMA SendsType ==
  ASSUME SuiteTypeOK, NEW R \in SUBSET Requests, Sends(R)
  PROVE  SuiteTypeOK'
<1>1. suiteCalm' \in BOOLEAN
  BY ZenonT(20) DEF Sends
<1> QED
  BY <1>1 DEF Sends, SuiteTypeOK, Requests

\* Every click keeps the types, and every answer.
LEMMA SuiteClickType ==
  ASSUME SuiteTypeOK, NEW no \in Nat, SuiteClick(no)
  PROVE  SuiteTypeOK'
<1>0. editor \in Editors /\ filtered \subseteq Cases /\ suites \in SuiteTables
  BY DEF SuiteTypeOK, Editors
<1>1. CASE NewSuite
  BY <1>1, EditsType, EmptyEditorType DEF NewSuite
<1>2. CASE SelectAllCases
  BY <1>0, <1>2, SelectsType, SelectingType DEF SelectAllCases
<1>3. CASE ClearFilteredCases
  BY <1>0, <1>3, SelectsType, ClearingType DEF ClearFilteredCases
<1>4. CASE ClearCases
  <2>1. [editor EXCEPT !.selected = {}, !.actions = EmptyEditor.actions] \in Editors
    BY <1>0, EmptyEditorType DEF Editors
  <2> QED
    BY <1>4, <2>1, SelectsType DEF ClearCases
<1>5. CASE ChangeFilter
  BY <1>0, <1>5, EditType, FilteredPart DEF ChangeFilter, SuiteTypeOK
<1>6. ASSUME NEW name \in Names, EditSuite(name) PROVE SuiteTypeOK'
  <2> DEFINE ed == [name |-> name, selected |-> DOMAIN suites[name], actions |-> suites[name]]
  <2>1. suites[name] \in Chosen
    BY <1>0, <1>6, InTable DEF EditSuite, Contents
  <2>2. ed \in Editors
    BY <2>1, InChosen DEF Editors
  <2> HIDE DEF ed
  <2>3. Edits(ed)
    BY <1>6 DEF EditSuite, ed
  <2> QED
    BY <2>2, <2>3, EditsType
<1>7. ASSUME NEW name \in Names, NameSuite(name) PROVE SuiteTypeOK'
  BY <1>0, <1>7, EditType DEF NameSuite, SuiteTypeOK, Editors
<1>8. ASSUME NEW name \in Names, DeleteSuite(no, name) PROVE SuiteTypeOK'
  <2> DEFINE table == Restrict(suites, DOMAIN suites \ {name})
  <2>1. table \in SuiteTables
    BY <1>0, RemovedType
  <2> HIDE DEF table
  <2>2. {Request("delete", no, name, table)} \in SUBSET Requests
    BY <2>1 DEF Request, Requests
  <2>3. Sends({Request("delete", no, name, table)})
    BY <1>8 DEF DeleteSuite, table
  <2> QED
    BY <2>2, <2>3, SendsType
<1>9. ASSUME NEW c \in Cases, ToggleCase(c) PROVE SuiteTypeOK'
  <2>1. Selecting(editor, {c}) \in Editors /\ Clearing(editor, {c}) \in Editors
    BY <1>0, SelectingType, ClearingType
  <2> QED
    BY <1>9, <2>1, SelectsType DEF ToggleCase
<1>10. ASSUME NEW c \in Cases, NEW action \in Actions, SetAction(c, action) PROVE SuiteTypeOK'
  <2> DEFINE a == [editor.actions EXCEPT ![c] = action]
  <2>1. editor.actions \in Chosen
    BY <1>0 DEF Editors
  <2>2. a \in [DOMAIN editor.actions -> Actions]
    BY <2>1, InChosen
  <2>3. a \in Chosen
    BY <2>1, <2>2, InChosen, ChosenOf
  <2>4. editor' = [editor EXCEPT !.actions = a]
    BY <1>0, <1>10 DEF SetAction, Editors
  <2> HIDE DEF a
  <2>5. editor' \in Editors
    BY <1>0, <2>3, <2>4 DEF Editors
  <2> QED
    BY <1>10, <2>5, EditType DEF SetAction, SuiteTypeOK
<1>11. CASE RefreshSuites(no)
  <2>1. {Request("load", no, NoName, NoSuites), Request("catalog", no, NoName, NoSuites)} \in SUBSET Requests
    BY NoSuitesType DEF Request, Requests
  <2> QED
    BY <1>11, <2>1, SendsType DEF RefreshSuites
<1>12. CASE SaveSuite(no)
  <2>1. editor.name \in Names /\ editor.selected # {}
    BY <1>0, <1>12 DEF SaveSuite, Editors
  <2>2. Updated(suites, editor) \in SuiteTables
    BY <1>0, <2>1, UpdatedType
  <2>3. {Request("save", no, editor.name, Updated(suites, editor))} \in SUBSET Requests
    BY <2>1, <2>2 DEF Request, Requests
  <2> QED
    BY <1>12, <2>3, SendsType DEF SaveSuite
<1> QED
  BY <1>1, <1>2, <1>3, <1>4, <1>5, <1>6, <1>7, <1>8, <1>9, <1>10, <1>11, <1>12 DEF SuiteClick

LEMMA SuiteAnswersType ==
  ASSUME SuiteTypeOK, SuiteAnswers
  PROVE  SuiteTypeOK'
<1>0. suiteRequests \subseteq Requests /\ editor \in Editors
  BY DEF SuiteTypeOK, Editors, Requests
<1>1. ASSUME NEW r \in suiteRequests, SuiteServed(r) PROVE SuiteTypeOK'
  <2>1. r \in Requests /\ storedSuites \in SuiteTables
    BY <1>0 DEF SuiteTypeOK
  <2>2. [r EXCEPT !.pc = "done", !.value = IF r.kind = "load" THEN storedSuites ELSE @] \in Requests
    BY <2>1 DEF Requests
  <2>3. suiteRequests' \subseteq Requests
    BY <1>0, <1>1, <2>2 DEF SuiteServed
  <2>4. storedSuites' \in SuiteTables
    BY <1>1, <2>1 DEF SuiteServed, Requests
  <2> QED
    BY <1>1, <2>3, <2>4 DEF SuiteServed, SuiteTypeOK, Requests
<1>2. ASSUME NEW r \in suiteRequests, SuiteFails(r) PROVE SuiteTypeOK'
  <2>1. [r EXCEPT !.pc = "failed"] \in Requests
    BY <1>0 DEF Requests
  <2>2. suiteRequests' \subseteq Requests
    BY <1>0, <1>2, <2>1 DEF SuiteFails
  <2>3. suiteCalm' \in BOOLEAN
    BY <1>2 DEF SuiteFails, SuiteTypeOK
  <2> QED
    BY <1>2, <2>2, <2>3 DEF SuiteFails, SuiteTypeOK, Requests
<1>3. ASSUME NEW r \in suiteRequests, SuiteAnswered(r) PROVE SuiteTypeOK'
  <2>1. r \in Requests
    BY <1>0
  <2>2. suites' \in SuiteTables
    BY <1>3, <2>1, NoSuitesType DEF SuiteAnswered, SuitesAfter, SuiteTypeOK, Requests
  <2>3. editor' \in Editors
    BY <1>0, <1>3, EmptyEditorType DEF SuiteAnswered
  <2>4. testcases' \subseteq Cases
    BY <1>3 DEF SuiteAnswered, SuiteTypeOK
  <2>5. filtered' \subseteq testcases'
    <3>1. CASE Refilters(r) \/ editor' # editor
      BY <1>3, <3>1, FilteredPart DEF SuiteAnswered
    <3>2. CASE ~(Refilters(r) \/ editor' # editor)
      BY <1>3, <3>2 DEF SuiteAnswered, Refilters, SuiteTypeOK
    <3> QED BY <3>1, <3>2
  <2> QED
    BY <1>3, <2>2, <2>3, <2>4, <2>5 DEF SuiteAnswered, SuiteTypeOK, Editors
<1> QED
  BY <1>1, <1>2, <1>3 DEF SuiteAnswers

-----------------------------------------------------------------------------
(* The list of cases                                                       *)

\* What is selected is all the list takes from the editor.
LEMMA FilteredBySelection ==
  ASSUME NEW ed, NEW ed2, ed.selected = ed2.selected
  PROVE  Filtered(testcases, filter, ed) = Filtered(testcases, filter, ed2)
BY DEF Filtered

LEMMA FilteredClick ==
  ASSUME SuiteTypeOK, FilteredIsCurrent, NEW no, SuiteClick(no)
  PROVE  FilteredIsCurrent'
<1> USE DEF FilteredIsCurrent
<1>0. editor \in Editors
  BY DEF SuiteTypeOK, Editors
<1>1. ASSUME NEW ed, Edits(ed) PROVE FilteredIsCurrent'
  BY <1>1 DEF Edits, Filtered
<1>2. ASSUME NEW ed, Selects(ed) PROVE FilteredIsCurrent'
  BY <1>2 DEF Selects, FilteredAfter, Filtered
<1>3. ASSUME NEW R, Sends(R) PROVE FilteredIsCurrent'
  BY <1>3 DEF Sends, Filtered
<1>4. CASE NewSuite \/ \E name \in Names : EditSuite(name)
  BY <1>1, <1>4 DEF NewSuite, EditSuite
<1>5. CASE SelectAllCases \/ ClearFilteredCases \/ ClearCases \/ \E c \in Cases : ToggleCase(c)
  BY <1>2, <1>5 DEF SelectAllCases, ClearFilteredCases, ClearCases, ToggleCase
<1>6. CASE ChangeFilter
  BY <1>6 DEF ChangeFilter, Filtered
<1>7. ASSUME NEW name \in Names, NameSuite(name) PROVE FilteredIsCurrent'
  <2>1. editor'.selected = editor.selected
    BY <1>0, <1>7 DEF NameSuite, Editors
  <2> QED
    BY <1>7, <2>1, FilteredBySelection DEF NameSuite
<1>8. ASSUME NEW c \in Cases, NEW action \in Actions, SetAction(c, action) PROVE FilteredIsCurrent'
  <2>1. editor'.selected = editor.selected
    BY <1>0, <1>8 DEF SetAction, Editors
  <2> QED
    BY <1>8, <2>1, FilteredBySelection DEF SetAction
<1>9. CASE RefreshSuites(no) \/ SaveSuite(no) \/ \E name \in Names : DeleteSuite(no, name)
  BY <1>3, <1>9 DEF RefreshSuites, SaveSuite, DeleteSuite
<1> QED
  BY <1>4, <1>5, <1>6, <1>7, <1>8, <1>9 DEF SuiteClick

LEMMA FilteredAnswer ==
  ASSUME FilteredIsCurrent, SuiteAnswers
  PROVE  FilteredIsCurrent'
<1>1. ASSUME NEW r \in suiteRequests, SuiteServed(r) \/ SuiteFails(r) PROVE FilteredIsCurrent'
  BY <1>1 DEF SuiteServed, SuiteFails, FilteredIsCurrent, Filtered
<1>2. ASSUME NEW r \in suiteRequests, SuiteAnswered(r) PROVE FilteredIsCurrent'
  BY <1>2 DEF SuiteAnswered, Refilters, FilteredIsCurrent, Filtered
<1> QED
  BY <1>1, <1>2 DEF SuiteAnswers

-----------------------------------------------------------------------------
(***************************************************************************)
(* Calm use of the page "Testsuite": of the requests that read or write    *)
(* suites one at most is out, and what it carries, the page and the server *)
(* fit each other at every stage.                                          *)
(***************************************************************************)

\* Two tables that differ in one suite at most.
SameBut(t, u, name) ==
  \A n \in Names \ {name} :
    /\ n \in DOMAIN t <=> n \in DOMAIN u
    /\ n \in DOMAIN t => t[n] = u[n]

\* What a request carries: until it is served, the page shows what is stored and the request
\* would change one suite; afterwards, it carries what is stored.
Fits(r) ==
  CASE r.pc = "done" -> r.value = storedSuites
    [] r.pc = "sent" /\ r.kind = "load" -> TRUE
    [] r.pc = "failed" /\ r.kind = "load" -> FALSE
    [] OTHER -> suites = storedSuites /\ SameBut(r.value, storedSuites, r.name)

OfSuites == {r \in suiteRequests : r.kind # "catalog"}

CalmSuites ==
  suiteCalm => /\ \A r, s \in OfSuites : r = s
               /\ \A r \in OfSuites : Fits(r)
               /\ OfSuites = {} => suites = storedSuites

\* The requests of the pages' suites after a step that changes none.
LEMMA CalmEdit ==
  ASSUME CalmSuites, UNCHANGED <<suites, suiteRequests, storedSuites, suiteCalm>>
  PROVE  CalmSuites'
BY DEF CalmSuites, OfSuites, Fits

\* A table sent changes one suite: that of the editor, or the one to be removed.
LEMMA UpdatedSameBut ==
  ASSUME NEW t, NEW ed
  PROVE  SameBut(Updated(t, ed), t, ed.name)
BY DEF SameBut, Updated, With1

LEMMA RemovedSameBut ==
  ASSUME NEW t, NEW name
  PROVE  SameBut(Restrict(t, DOMAIN t \ {name}), t, name)
BY DEF SameBut, Restrict

\* Sending: in a calm page nothing but the catalog was out, so it shows what is stored.
LEMMA CalmSends ==
  ASSUME CalmSuites, NEW R, Sends(R), NEW q \in R,
         \A r \in R : r.kind # "catalog" => r = q,
         suites = storedSuites => Fits(q)
  PROVE  CalmSuites'
<1> SUFFICES ASSUME suiteCalm'
             PROVE  /\ \A r, s \in OfSuites' : r = s
                    /\ \A r \in OfSuites' : Fits(r)'
                    /\ OfSuites' = {} => suites' = storedSuites'
  BY DEF CalmSuites
<1>1. suiteCalm /\ OfSuites = {}
  BY DEF Sends, OfSuites
<1>2. suites = storedSuites /\ UNCHANGED <<suites, storedSuites>>
  BY <1>1 DEF CalmSuites, Sends
<1>3. \A r \in OfSuites' : r = q
  BY <1>1 DEF OfSuites, Sends
<1>4. Fits(q)'
  BY <1>2 DEF Fits
<1> QED
  BY <1>2, <1>3, <1>4

LEMMA CalmClick ==
  ASSUME SuiteTypeOK, CalmSuites, NEW no \in Nat, SuiteClick(no)
  PROVE  CalmSuites'
<1>1. ASSUME NEW ed, Edits(ed) \/ Selects(ed) PROVE CalmSuites'
  BY <1>1, CalmEdit DEF Edits, Selects
<1>2. CASE NewSuite \/ (\E name \in Names : EditSuite(name)) \/ SelectAllCases \/ ClearFilteredCases
             \/ ClearCases \/ \E c \in Cases : ToggleCase(c)
  BY <1>1, <1>2 DEF NewSuite, EditSuite, SelectAllCases, ClearFilteredCases, ClearCases, ToggleCase
<1>3. CASE ChangeFilter
  BY <1>3, CalmEdit DEF ChangeFilter
<1>4. ASSUME NEW name \in Names, NameSuite(name) PROVE CalmSuites'
  BY <1>4, CalmEdit DEF NameSuite
<1>5. ASSUME NEW c \in Cases, NEW action \in Actions, SetAction(c, action) PROVE CalmSuites'
  BY <1>5, CalmEdit DEF SetAction
<1>6. CASE RefreshSuites(no)
  <2> DEFINE q == Request("load", no, NoName, NoSuites)
             p == Request("catalog", no, NoName, NoSuites)
  <2>1. q.kind = "load" /\ q.pc = "sent" /\ p.kind = "catalog"
    BY DEF Request
  <2> HIDE DEF q, p
  <2>2. Fits(q)
    BY <2>1 DEF Fits
  <2>3. Sends({q, p})
    BY <1>6 DEF RefreshSuites, q, p
  <2> QED
    BY <2>1, <2>2, <2>3, CalmSends
<1>7. CASE SaveSuite(no)
  <2> DEFINE q == Request("save", no, editor.name, Updated(suites, editor))
  <2>1. q.kind = "save" /\ q.pc = "sent" /\ q.name = editor.name /\ q.value = Updated(suites, editor)
    BY DEF Request
  <2>2. Sends({q})
    BY <1>7 DEF SaveSuite
  <2> HIDE DEF q
  <2>3. suites = storedSuites => Fits(q)
    BY <2>1, UpdatedSameBut DEF Fits
  <2> QED
    BY <2>2, <2>3, CalmSends
<1>8. ASSUME NEW name \in Names, DeleteSuite(no, name) PROVE CalmSuites'
  <2> DEFINE q == Request("delete", no, name, Restrict(suites, DOMAIN suites \ {name}))
  <2>1. q.kind = "delete" /\ q.pc = "sent" /\ q.name = name /\ q.value = Restrict(suites, DOMAIN suites \ {name})
    BY DEF Request
  <2>2. Sends({q})
    BY <1>8 DEF DeleteSuite
  <2> HIDE DEF q
  <2>3. suites = storedSuites => Fits(q)
    BY <2>1, RemovedSameBut DEF Fits
  <2> QED
    BY <2>2, <2>3, CalmSends
<1> QED
  BY <1>2, <1>3, <1>4, <1>5, <1>6, <1>7, <1>8 DEF SuiteClick

\* Answers: what is served or fails stays the only request, what is answered goes.
LEMMA CalmAnswer ==
  ASSUME SuiteTypeOK, CalmSuites, SuiteAnswers
  PROVE  CalmSuites'
<1>0. suiteRequests \subseteq Requests
  BY DEF SuiteTypeOK, Requests
<1> SUFFICES ASSUME suiteCalm'
             PROVE  /\ \A r, s \in OfSuites' : r = s
                    /\ \A r \in OfSuites' : Fits(r)'
                    /\ OfSuites' = {} => suites' = storedSuites'
  BY DEF CalmSuites
<1>1. PICK q \in suiteRequests : SuiteServed(q) \/ SuiteFails(q) \/ SuiteAnswered(q)
  BY DEF SuiteAnswers
<1>2. suiteCalm
  BY <1>1 DEF SuiteServed, SuiteFails, SuiteAnswered
<1>3. /\ \A r, s \in OfSuites : r = s
      /\ \A r \in OfSuites : Fits(r)
      /\ OfSuites = {} => suites = storedSuites
  BY <1>2 DEF CalmSuites
<1>4. q \in Requests
  BY <1>0, <1>1
<1>5. CASE SuiteServed(q)
  <2>0. PICK t : t = [q EXCEPT !.pc = "done", !.value = IF q.kind = "load" THEN storedSuites ELSE q.value]
    OBVIOUS
  <2>1. /\ t.kind = q.kind /\ t.pc = "done"
        /\ t.value = IF q.kind = "load" THEN storedSuites ELSE q.value
    BY <1>4, <2>0 DEF Requests
  <2>2. suiteRequests' = (suiteRequests \ {q}) \cup {t}
    BY <1>5, <2>0 DEF SuiteServed
  <2>3. CASE q.kind = "catalog"
    <3>1. OfSuites' = OfSuites
      BY <2>1, <2>2, <2>3 DEF OfSuites
    <3>2. UNCHANGED <<suites, storedSuites>>
      BY <1>5, <2>3 DEF SuiteServed
    <3> QED
      BY <1>3, <3>1, <3>2 DEF Fits
  <2>4. CASE q.kind # "catalog"
    <3>1. OfSuites' = {t}
      BY <1>1, <1>3, <2>1, <2>2, <2>4 DEF OfSuites
    <3>2. storedSuites' = t.value
      BY <1>4, <1>5, <2>1, <2>4 DEF SuiteServed, Requests
    <3>3. Fits(t)'
      BY <2>1, <3>2 DEF Fits
    <3> QED
      BY <3>1, <3>3
  <2> QED
    BY <2>3, <2>4
<1>6. CASE SuiteFails(q)
  <2> DEFINE t == [q EXCEPT !.pc = "failed"]
  <2>1. t.kind = q.kind /\ t.pc = "failed" /\ t.value = q.value /\ t.name = q.name
    BY <1>4 DEF Requests
  <2>2. suiteRequests' = (suiteRequests \ {q}) \cup {t} /\ q.kind # "load" /\ q.pc = "sent"
    BY <1>6 DEF SuiteFails
  <2> HIDE DEF t
  <2>3. UNCHANGED <<suites, storedSuites>>
    BY <1>6 DEF SuiteFails
  <2>4. CASE q.kind = "catalog"
    <3>1. OfSuites' = OfSuites
      BY <2>1, <2>2, <2>4 DEF OfSuites
    <3> QED
      BY <1>3, <2>3, <3>1 DEF Fits
  <2>5. CASE q.kind # "catalog"
    <3>1. OfSuites' = {t} /\ q \in OfSuites
      BY <1>1, <1>3, <2>1, <2>2, <2>5 DEF OfSuites
    <3>2. Fits(q)
      BY <1>3, <3>1
    <3>3. suites = storedSuites /\ SameBut(q.value, storedSuites, q.name)
      BY <2>2, <3>2 DEF Fits
    <3>4. Fits(t)'
      BY <2>1, <2>2, <2>3, <3>3 DEF Fits
    <3> QED
      BY <3>1, <3>4
  <2> QED
    BY <2>4, <2>5
<1>7. CASE SuiteAnswered(q)
  <2>1. suiteRequests' = suiteRequests \ {q} /\ UNCHANGED storedSuites /\ suites' = SuitesAfter(q) /\ q.pc # "sent"
    BY <1>7 DEF SuiteAnswered
  <2>2. CASE q.kind = "catalog"
    <3>1. OfSuites' = OfSuites /\ UNCHANGED suites
      BY <2>1, <2>2 DEF OfSuites, SuitesAfter, Load
    <3> QED
      BY <1>3, <2>1, <3>1 DEF Fits
  <2>3. CASE q.kind # "catalog"
    <3>1. OfSuites' = {} /\ q \in OfSuites
      BY <1>1, <1>3, <2>1, <2>3 DEF OfSuites
    <3>2. Fits(q)
      BY <1>3, <3>1
    <3>3. suites' = storedSuites
      BY <1>4, <2>1, <2>3, <3>2 DEF Fits, SuitesAfter, Load, Requests
    <3> QED
      BY <2>1, <3>1, <3>3
  <2> QED
    BY <2>2, <2>3
<1> QED
  BY <1>1, <1>5, <1>6, <1>7

\* A server that replaces its suites while the page is calm changes one of them.
LEMMA OneChanges ==
  ASSUME SuiteTypeOK, CalmSuites, suiteCalm, NEW q \in suiteRequests, SuiteServed(q)
  PROVE  \E name : SameBut(storedSuites', storedSuites, name)
<1>1. CASE q.kind \in {"save", "delete"}
  <2>1. q \in OfSuites /\ q.pc = "sent"
    BY <1>1 DEF OfSuites, SuiteServed
  <2>2. Fits(q)
    BY <2>1 DEF CalmSuites
  <2>3. SameBut(q.value, storedSuites, q.name)
    BY <1>1, <2>1, <2>2 DEF Fits
  <2> QED
    BY <1>1, <2>3 DEF SuiteServed
<1>2. CASE q.kind \notin {"save", "delete"}
  BY <1>2 DEF SuiteServed, SameBut
<1> QED
  BY <1>1, <1>2

-----------------------------------------------------------------------------
(***************************************************************************)
(* Calm use of the page "Config": one save or upload at most is out, after *)
(* the configuration has been loaded; every path that was uploaded last    *)
(* and not typed over is on the page, in a save that is out, in what an    *)
(* upload has read and, but for an upload that has not answered, in what   *)
(* is stored.                                                              *)
(***************************************************************************)

HasUploads(config) == \A f \in Files : lastUpload[f] # Unset => config.path[f] = lastUpload[f]

CalmLoad ==
  /\ cfgLoad.pc # "done" => /\ saves = {} /\ uploads = {}
                            /\ \A f \in Files : lastUpload[f] = Unset
  /\ HasUploads(cfg)

CalmRequests ==
  /\ \A s, t \in saves : s = t
  /\ \A u, w \in uploads : u = w
  /\ saves = {} \/ uploads = {}
  /\ \A s \in saves : HasUploads(s.value)
  /\ \A u \in uploads : u.pc = "read" => HasUploads(u.value)
  /\ \A u \in uploads : u.pc = "written" =>
       \A f \in Files : /\ f = u.file => storedCfg.path[f] = u.path
                        /\ f # u.file /\ lastUpload[f] # Unset => storedCfg.path[f] = lastUpload[f]
  /\ (\A u \in uploads : u.pc # "written") => HasUploads(storedCfg)

CalmConfig == configCalm => CalmLoad /\ CalmRequests

LEMMA NoConfigType == NoConfig \in Config
BY DEF NoConfig, Config

LEMMA ConfigInitType == ConfigInit => ConfigTypeOK
<1> SUFFICES ASSUME ConfigInit PROVE ConfigTypeOK
  OBVIOUS
<1>1. storedCfg \in Config
  BY ConfigAssumption DEF ConfigInit
<1> QED
  BY <1>1, NoConfigType DEF ConfigInit, ConfigTypeOK

\* Counting what is sent.
LEMMA SentType ==
  ASSUME ConfigTypeOK, NEW password, Sent(password)
  PROVE  passwordsSent' \in [Passwords -> Nat]
BY DEF Sent, ConfigTypeOK

SaveRequests   == [no : Nat, pc : {"session", "granted", "refused", "sent"}, value : Config]
UploadRequests == [no : Nat, pc : {"sent", "read", "written"}, file : Files, path : Paths,
                   value : Config]

\* Putting a save, and the configuration as the server writes it.
LEMMA PutType ==
  ASSUME cfg \in Config, NEW save \in SaveRequests
  PROVE  Put(save) \in SaveRequests /\ Put(save).value = cfg
BY DEF Put, SaveRequests

LEMMA WrittenType ==
  ASSUME NEW config \in Config
  PROVE  Written(config) \in Config /\ Written(config).path = config.path
BY DEF Written, Config

\* One path replaced, the other left.
LEMMA WithPath ==
  ASSUME NEW config \in Config, NEW f \in Files, NEW path \in Paths \cup {Unset}
  PROVE  /\ PathKnown(config, f, path) \in Config
         /\ PathKnown(config, f, path).path[f] = path
         /\ \A g \in Files \ {f} : PathKnown(config, f, path).path[g] = config.path[g]
<1>1. config.path \in [Files -> Paths \cup {Unset}]
  BY DEF Config
<1>2. [config.path EXCEPT ![f] = path] \in [Files -> Paths \cup {Unset}]
  BY <1>1
<1>3. PathKnown(config, f, path) = [config EXCEPT !.path = [config.path EXCEPT ![f] = path]]
  BY DEF PathKnown
<1>4. PathKnown(config, f, path).path = [config.path EXCEPT ![f] = path]
  BY <1>3 DEF Config
<1>5. PathKnown(config, f, path) \in Config
  BY <1>2, <1>3 DEF Config
<1> QED
  BY <1>1, <1>4, <1>5

\* Every click keeps the types, and every answer.
LEMMA ConfigClickType ==
  ASSUME ConfigTypeOK, NEW no \in Nat, ConfigClick(no)
  PROVE  ConfigTypeOK'
<1>0. cfg \in Config /\ saves \subseteq SaveRequests /\ uploads \subseteq UploadRequests
  BY DEF ConfigTypeOK, SaveRequests, UploadRequests
<1>1. CASE EditConfig
  <2>1. cfg' \in Config /\ lastUpload' \in [Files -> Paths \cup {Unset}]
    <3>1. CASE UNCHANGED lastUpload /\ \/ \E p \in Passwords \cup {Unset} : cfg' = [cfg EXCEPT !.password = p]
                                       \/ \E s \in Settings : cfg' = [cfg EXCEPT !.other = s]
      BY <1>0, <3>1 DEF ConfigTypeOK, Config
    <3>2. ASSUME NEW f \in Files, NEW path \in Paths \cup {Unset}, cfg' = [cfg EXCEPT !.path[f] = path],
                 lastUpload' = [lastUpload EXCEPT ![f] = Unset]
          PROVE  cfg' \in Config /\ lastUpload' \in [Files -> Paths \cup {Unset}]
      <4>1. cfg' = PathKnown(cfg, f, path)
        BY <3>2 DEF PathKnown
      <4>2. lastUpload' \in [Files -> Paths \cup {Unset}]
        BY <3>2 DEF ConfigTypeOK
      <4> QED
        BY <1>0, <4>1, <4>2, WithPath
    <3> QED
      BY <1>1, <3>1, <3>2 DEF EditConfig
  <2> QED
    BY <1>1, <2>1 DEF EditConfig, ConfigTypeOK
<1>2. CASE SaveConfig(no)
  <2> DEFINE save == [no |-> no, pc |-> "session", value |-> cfg]
  <2>1. save \in SaveRequests
    BY <1>0 DEF SaveRequests
  <2>2. Put(save) \in SaveRequests
    BY <1>0, <2>1, PutType
  <2>3. saves' \subseteq SaveRequests
    BY <1>0, <1>2, <2>1, <2>2 DEF SaveConfig
  <2>4. passwordsSent' \in [Passwords -> Nat]
    BY <1>2, SentType DEF SaveConfig
  <2>5. configCalm' \in BOOLEAN
    BY <1>2, ZenonT(20) DEF SaveConfig, ConfigTypeOK
  <2> QED
    BY <1>2, <2>3, <2>4, <2>5 DEF SaveConfig, ConfigTypeOK, SaveRequests
<1>3. CASE Upload(no)
  <2>1. PICK f \in Files, path \in Paths :
          uploads' = uploads \cup {[no |-> no, pc |-> "sent", file |-> f, path |-> path, value |-> NoConfig]}
    BY <1>3 DEF Upload
  <2>2. uploads' \subseteq UploadRequests
    BY <1>0, <2>1, NoConfigType DEF UploadRequests
  <2>3. configCalm' \in BOOLEAN
    BY <1>3, ZenonT(20) DEF Upload, ConfigTypeOK
  <2> QED
    BY <1>3, <2>2, <2>3 DEF Upload, ConfigTypeOK, UploadRequests
<1> QED
  BY <1>1, <1>2, <1>3 DEF ConfigClick

LEMMA ConfigAnswersType ==
  ASSUME ConfigTypeOK, ConfigAnswers
  PROVE  ConfigTypeOK'
<1>0. /\ cfg \in Config /\ saves \subseteq SaveRequests /\ uploads \subseteq UploadRequests
      /\ storedCfg \in Config /\ NoConfig \in Config
  BY NoConfigType DEF ConfigTypeOK, SaveRequests, UploadRequests
<1>1. CASE ConfigServed \/ ConfigAnswered \/ ConfigFails
  <2>1. cfg' \in Config /\ UNCHANGED storedCfg
    BY <1>0, <1>1 DEF ConfigServed, ConfigAnswered, ConfigFails, ConfigTypeOK
  <2>2. cfgLoad' \in [pc : {"sent", "answered", "done"}, value : Config]
    BY <1>0, <1>1 DEF ConfigServed, ConfigAnswered, ConfigFails
  <2>3. configCalm' \in BOOLEAN
    BY <1>1 DEF ConfigServed, ConfigAnswered, ConfigFails, ConfigTypeOK
  <2>4. UNCHANGED <<configPlugin, saves, uploads, token, lastUpload, passwordsSent>>
    BY <1>1 DEF ConfigServed, ConfigAnswered, ConfigFails
  <2> QED
    BY <2>1, <2>2, <2>3, <2>4 DEF ConfigTypeOK
<1>2. ASSUME NEW s \in saves, SessionServed(s) PROVE ConfigTypeOK'
  <2>1. \A pc \in {"granted", "refused"} : [s EXCEPT !.pc = pc] \in SaveRequests
    BY <1>0 DEF SaveRequests
  <2>2. saves' \subseteq SaveRequests
    BY <1>0, <1>2, <2>1 DEF SessionServed
  <2> QED
    BY <1>2, <2>2 DEF SessionServed, ConfigTypeOK, SaveRequests
<1>3. ASSUME NEW s \in saves, SessionAnswered(s) PROVE ConfigTypeOK'
  <2>1. saves' \subseteq SaveRequests
    BY <1>0, <1>3, PutType DEF SessionAnswered
  <2>2. token' \in Passwords \cup {Unset}
    BY <1>0, <1>3 DEF SessionAnswered, ConfigTypeOK, SaveRequests, Config
  <2>3. passwordsSent' \in [Passwords -> Nat]
    BY <1>3, SentType DEF SessionAnswered, ConfigTypeOK
  <2> QED
    BY <1>3, <2>1, <2>2, <2>3 DEF SessionAnswered, ConfigTypeOK, SaveRequests
<1>4. ASSUME NEW s \in saves, ConfigSaved(s) PROVE ConfigTypeOK'
  <2>1. s.value \in Config
    BY <1>0 DEF SaveRequests
  <2> QED
    BY <1>4, <2>1, WrittenType DEF ConfigSaved, ConfigTypeOK
<1>5. ASSUME NEW u \in uploads, UploadMoves(u) PROVE ConfigTypeOK'
  <2>1. u \in UploadRequests
    BY <1>0
  <2>2. [u EXCEPT !.pc = "read", !.value = storedCfg] \in UploadRequests /\ [u EXCEPT !.pc = "written"] \in UploadRequests
    BY <1>0, <2>1 DEF UploadRequests
  <2>3. uploads' \subseteq UploadRequests
    BY <1>0, <1>5, <2>2 DEF UploadMoves
  <2>4. Written(PathKnown(u.value, u.file, u.path)) \in Config
    <3>1. u.value \in Config /\ u.file \in Files /\ u.path \in Paths
      BY <2>1 DEF UploadRequests
    <3>2. PathKnown(u.value, u.file, u.path) \in Config
      BY <3>1, WithPath
    <3> QED
      BY <3>2, WrittenType
  <2>5. storedCfg' \in Config
    BY <1>0, <1>5, <2>4 DEF UploadMoves, PathKnown
  <2> QED
    BY <1>5, <2>3, <2>5 DEF UploadMoves, ConfigTypeOK, UploadRequests
<1>6. ASSUME NEW u \in uploads, UploadAnswered(u) PROVE ConfigTypeOK'
  <2>1. u.path \in Paths /\ u.file \in Files
    BY <1>0 DEF UploadRequests
  <2>2. PathKnown(cfg, u.file, u.path) \in Config
    BY <1>0, <2>1, WithPath
  <2>3. lastUpload' \in [Files -> Paths \cup {Unset}]
    BY <1>6, <2>1 DEF UploadAnswered, ConfigTypeOK
  <2>4. uploads' \subseteq uploads
    BY <1>6 DEF UploadAnswered
  <2> QED
    BY <1>6, <2>2, <2>3, <2>4 DEF UploadAnswered, ConfigTypeOK
<1> QED
  BY <1>1, <1>2, <1>3, <1>4, <1>5, <1>6 DEF ConfigAnswers

\* Calm, what is stored is on the page between requests, so nothing uploaded is lost.
LEMMA CalmKeepsUploads == CalmConfig => UploadIsKept
BY DEF CalmConfig, CalmRequests, HasUploads, UploadIsKept

\* Typing a path gives up what was uploaded for it, and nothing else.
LEMMA TypedOver ==
  ASSUME lastUpload \in [Files -> Paths \cup {Unset}], NEW f \in Files,
         lastUpload' = [lastUpload EXCEPT ![f] = Unset]
  PROVE  /\ lastUpload'[f] = Unset
         /\ \A g \in Files : lastUpload'[g] # Unset => g # f /\ lastUpload'[g] = lastUpload[g]
OBVIOUS

\* Calm use, step by step.
LEMMA CalmConfigEdit ==
  ASSUME ConfigTypeOK, CalmLoad, CalmRequests, EditConfig
  PROVE  CalmLoad' /\ CalmRequests'
<1>1. UNCHANGED <<cfgLoad, saves, uploads, storedCfg>>
  BY DEF EditConfig
<1>2. cfg \in Config /\ lastUpload \in [Files -> Paths \cup {Unset}]
  BY DEF ConfigTypeOK
<1>3. /\ \A g \in Files : lastUpload'[g] # Unset => lastUpload'[g] = lastUpload[g]
      /\ \A g \in Files : lastUpload'[g] # Unset => cfg'.path[g] = cfg.path[g]
  <2>1. CASE UNCHANGED lastUpload /\ \/ \E p \in Passwords \cup {Unset} : cfg' = [cfg EXCEPT !.password = p]
                                     \/ \E s \in Settings : cfg' = [cfg EXCEPT !.other = s]
    <3>1. cfg'.path = cfg.path
      BY <1>2, <2>1 DEF Config
    <3> QED
      BY <2>1, <3>1
  <2>2. ASSUME NEW f \in Files, NEW path \in Paths \cup {Unset}, cfg' = [cfg EXCEPT !.path[f] = path],
               lastUpload' = [lastUpload EXCEPT ![f] = Unset]
        PROVE  /\ \A g \in Files : lastUpload'[g] # Unset => lastUpload'[g] = lastUpload[g]
               /\ \A g \in Files : lastUpload'[g] # Unset => cfg'.path[g] = cfg.path[g]
    <3>1. cfg' = PathKnown(cfg, f, path)
      BY <2>2 DEF PathKnown
    <3>2. \A g \in Files \ {f} : cfg'.path[g] = cfg.path[g]
      BY <1>2, <3>1, WithPath
    <3>3. \A g \in Files : lastUpload'[g] # Unset => g # f /\ lastUpload'[g] = lastUpload[g]
      BY <1>2, <2>2, TypedOver
    <3> QED
      BY <3>2, <3>3
  <2> QED
    BY <2>1, <2>2 DEF EditConfig
<1>4. ASSUME NEW config, HasUploads(config)
      PROVE  \A g \in Files : lastUpload'[g] # Unset => config.path[g] = lastUpload'[g]
  BY <1>3, <1>4 DEF HasUploads
<1>5. CalmLoad'
  <2>1. HasUploads(cfg)'
    BY <1>3 DEF CalmLoad, HasUploads
  <2>2. cfgLoad'.pc # "done" => /\ saves' = {} /\ uploads' = {}
                               /\ \A f \in Files : lastUpload'[f] = Unset
    BY <1>1, <1>3 DEF CalmLoad
  <2> QED
    BY <2>1, <2>2 DEF CalmLoad
<1>6. CalmRequests'
  <2>1. (\A s \in saves : HasUploads(s.value))' /\ (\A u \in uploads : u.pc = "read" => HasUploads(u.value))'
    BY <1>1, <1>4 DEF CalmRequests, HasUploads
  <2>2. (\A u \in uploads : u.pc = "written" =>
          \A f \in Files : /\ f = u.file => storedCfg.path[f] = u.path
                           /\ f # u.file /\ lastUpload[f] # Unset => storedCfg.path[f] = lastUpload[f])'
    BY <1>1, <1>3 DEF CalmRequests
  <2>3. ((\A u \in uploads : u.pc # "written") => HasUploads(storedCfg))'
    BY <1>1, <1>4 DEF CalmRequests, HasUploads
  <2> QED
    BY <1>1, <2>1, <2>2, <2>3 DEF CalmRequests
<1> QED
  BY <1>5, <1>6

LEMMA CalmConfigClick ==
  ASSUME ConfigTypeOK, CalmConfig, NEW no \in Nat, ConfigClick(no)
  PROVE  CalmConfig'
<1> SUFFICES ASSUME configCalm' PROVE CalmLoad' /\ CalmRequests'
  BY DEF CalmConfig
<1>0. cfg \in Config /\ saves \subseteq SaveRequests
  BY DEF ConfigTypeOK, SaveRequests
<1>1. configCalm
  BY DEF ConfigClick, EditConfig, SaveConfig, Upload
<1>2. CalmLoad /\ CalmRequests
  BY <1>1 DEF CalmConfig
<1>3. CASE EditConfig
  BY <1>2, <1>3, CalmConfigEdit
<1>4. CASE SaveConfig(no)
  <2>1. cfgLoad.pc = "done" /\ saves = {} /\ uploads = {} /\ HasUploads(cfg) /\ HasUploads(storedCfg)
    BY <1>2, <1>4 DEF SaveConfig, CalmLoad, CalmRequests
  <2>2. PICK s : saves' = {s} /\ s.value = cfg
    <3> DEFINE save == [no |-> no, pc |-> "session", value |-> cfg]
    <3>1. save \in SaveRequests /\ save.value = cfg
      BY <1>0 DEF SaveRequests
    <3>2. Put(save).value = cfg
      BY <1>0, <3>1, PutType
    <3>3. saves' = {save} \/ saves' = {Put(save)}
      BY <1>4, <2>1 DEF SaveConfig
    <3> QED
      BY <3>1, <3>2, <3>3
  <2>3. UNCHANGED <<cfg, cfgLoad, uploads, storedCfg, lastUpload>>
    BY <1>4 DEF SaveConfig
  <2> QED
    BY <2>1, <2>2, <2>3 DEF CalmLoad, CalmRequests, HasUploads
<1>5. CASE Upload(no)
  <2>1. cfgLoad.pc = "done" /\ saves = {} /\ uploads = {} /\ HasUploads(cfg) /\ HasUploads(storedCfg)
    BY <1>2, <1>5 DEF Upload, CalmLoad, CalmRequests
  <2>2. PICK u : uploads' = {u} /\ u.pc = "sent"
    <3>1. PICK f \in Files, path \in Paths :
            uploads' = {[no |-> no, pc |-> "sent", file |-> f, path |-> path, value |-> NoConfig]}
      BY <1>5, <2>1 DEF Upload
    <3>2. [no |-> no, pc |-> "sent", file |-> f, path |-> path, value |-> NoConfig].pc = "sent"
      OBVIOUS
    <3> QED
      BY <3>1, <3>2
  <2>3. UNCHANGED <<cfg, cfgLoad, saves, storedCfg, lastUpload>>
    BY <1>5 DEF Upload
  <2> QED
    BY <2>1, <2>2, <2>3 DEF CalmLoad, CalmRequests, HasUploads
<1> QED
  BY <1>3, <1>4, <1>5 DEF ConfigClick

LEMMA CalmConfigAnswers ==
  ASSUME ConfigTypeOK, CalmConfig, ConfigAnswers
  PROVE  CalmConfig'
<1> SUFFICES ASSUME configCalm' PROVE CalmLoad' /\ CalmRequests'
  BY DEF CalmConfig
<1>0. /\ cfg \in Config /\ storedCfg \in Config
      /\ saves \subseteq SaveRequests /\ uploads \subseteq UploadRequests
      /\ lastUpload \in [Files -> Paths \cup {Unset}]
  BY DEF ConfigTypeOK, SaveRequests, UploadRequests
<1>1. configCalm
  BY DEF ConfigAnswers, ConfigServed, ConfigAnswered, ConfigFails, SessionServed, SessionAnswered,
         ConfigSaved, UploadMoves, UploadAnswered
<1>2. CalmLoad /\ CalmRequests
  BY <1>1 DEF CalmConfig
<1>3. CASE ConfigServed \/ ConfigAnswered \/ ConfigFails
  <2>1. cfgLoad.pc # "done"
    BY <1>3 DEF ConfigServed, ConfigAnswered, ConfigFails
  <2>2. saves = {} /\ uploads = {} /\ \A f \in Files : lastUpload[f] = Unset
    BY <1>2, <2>1 DEF CalmLoad
  <2>3. UNCHANGED <<saves, uploads, lastUpload>>
    BY <1>3 DEF ConfigServed, ConfigAnswered, ConfigFails
  <2> QED
    BY <2>2, <2>3 DEF CalmLoad, CalmRequests, HasUploads
<1>4. ASSUME NEW s \in saves, SessionServed(s) \/ SessionAnswered(s) \/ ConfigSaved(s)
      PROVE  CalmLoad' /\ CalmRequests'
  <2>1. /\ saves = {s} /\ uploads = {} /\ cfgLoad.pc = "done"
        /\ HasUploads(s.value) /\ HasUploads(cfg) /\ HasUploads(storedCfg)
    BY <1>2, <1>4 DEF CalmLoad, CalmRequests
  <2>2. s \in SaveRequests
    BY <1>0
  <2>3. UNCHANGED <<cfg, cfgLoad, uploads, lastUpload>>
    BY <1>4 DEF SessionServed, SessionAnswered, ConfigSaved
  <2>4. HasUploads(storedCfg)'
    <3>1. s.value \in Config
      BY <2>2 DEF SaveRequests
    <3>2. Written(s.value).path = s.value.path
      BY <3>1, WrittenType
    <3>3. UNCHANGED storedCfg \/ storedCfg' = Written(s.value)
      BY <1>4 DEF SessionServed, SessionAnswered, ConfigSaved
    <3> QED
      BY <2>1, <2>3, <3>2, <3>3 DEF HasUploads
  <2>5. saves' = {} \/ \E t : saves' = {t} /\ HasUploads(t.value)
    <3>1. CASE SessionServed(s)
      <4>1. PICK pc \in {"granted", "refused"} : saves' = {[s EXCEPT !.pc = pc]}
        BY <2>1, <3>1 DEF SessionServed
      <4>2. [s EXCEPT !.pc = pc].value = s.value
        BY <2>2 DEF SaveRequests
      <4> QED
        BY <2>1, <4>1, <4>2
    <3>2. CASE SessionAnswered(s)
      <4>1. Put(s).value = cfg
        BY <1>0, <2>2, PutType
      <4> QED
        BY <2>1, <3>2, <4>1 DEF SessionAnswered
    <3>3. CASE ConfigSaved(s)
      BY <2>1, <3>3 DEF ConfigSaved
    <3> QED
      BY <1>4, <3>1, <3>2, <3>3
  <2>6. \A t \in saves' : \A f \in Files : lastUpload'[f] # Unset => t.value.path[f] = lastUpload'[f]
    BY <2>3, <2>5 DEF HasUploads
  <2>7. \A t, w \in saves' : t = w
    BY <2>5
  <2>8. CalmRequests'
    BY <2>1, <2>3, <2>4, <2>6, <2>7 DEF CalmRequests, HasUploads
  <2> QED
    BY <2>1, <2>3, <2>8 DEF CalmLoad, HasUploads
<1>5. ASSUME NEW u \in uploads, UploadMoves(u)
      PROVE  CalmLoad' /\ CalmRequests'
  <2>1. uploads = {u} /\ saves = {} /\ cfgLoad.pc = "done" /\ u \in UploadRequests /\ HasUploads(cfg)
    BY <1>0, <1>2, <1>5 DEF CalmLoad, CalmRequests
  <2>2. UNCHANGED <<cfg, cfgLoad, saves, lastUpload>>
    BY <1>5 DEF UploadMoves
  <2>3. CASE u.pc = "sent"
    <3>1. HasUploads(storedCfg) /\ UNCHANGED storedCfg
      BY <1>2, <1>5, <2>1, <2>3 DEF CalmRequests, UploadMoves
    <3>2. uploads' = {[u EXCEPT !.pc = "read", !.value = storedCfg]}
      BY <1>5, <2>1, <2>3 DEF UploadMoves
    <3>3. PICK w : uploads' = {w} /\ w.pc = "read" /\ w.value = storedCfg
      <4>1. /\ [u EXCEPT !.pc = "read", !.value = storedCfg].pc = "read"
            /\ [u EXCEPT !.pc = "read", !.value = storedCfg].value = storedCfg
        BY <2>1 DEF UploadRequests
      <4> QED
        BY <3>2, <4>1
    <3> QED
      BY <2>1, <2>2, <3>1, <3>3 DEF CalmLoad, CalmRequests, HasUploads
  <2>4. CASE u.pc = "read"
    <3>0. u.value \in Config /\ u.file \in Files /\ u.path \in Paths /\ HasUploads(u.value)
      BY <1>2, <2>1, <2>4 DEF UploadRequests, CalmRequests
    <3>1. /\ storedCfg'.path[u.file] = u.path
          /\ \A g \in Files \ {u.file} : storedCfg'.path[g] = u.value.path[g]
      <4>1. PathKnown(u.value, u.file, u.path) \in Config
        BY <3>0, WithPath
      <4>2. Written(PathKnown(u.value, u.file, u.path)).path = PathKnown(u.value, u.file, u.path).path
        BY <4>1, WrittenType
      <4>3. storedCfg' = Written(PathKnown(u.value, u.file, u.path))
        BY <1>5, <2>4 DEF UploadMoves, PathKnown
      <4> QED
        BY <3>0, <4>2, <4>3, WithPath
    <3>2. uploads' = {[u EXCEPT !.pc = "written"]}
      BY <1>5, <2>1, <2>4 DEF UploadMoves
    <3>3. PICK w : uploads' = {w} /\ w.pc = "written" /\ w.path = u.path /\ w.file = u.file
      <4>1. /\ [u EXCEPT !.pc = "written"].pc = "written" /\ [u EXCEPT !.pc = "written"].path = u.path
            /\ [u EXCEPT !.pc = "written"].file = u.file
        BY <2>1 DEF UploadRequests
      <4> QED
        BY <3>2, <4>1
    <3>4. \A f \in Files : /\ f = u.file => storedCfg'.path[f] = u.path
                           /\ f # u.file /\ lastUpload'[f] # Unset => storedCfg'.path[f] = lastUpload'[f]
      BY <2>2, <3>0, <3>1 DEF HasUploads
    <3>5. CalmRequests'
      BY <2>1, <2>2, <3>3, <3>4 DEF CalmRequests
    <3> QED
      BY <2>1, <2>2, <3>5 DEF CalmLoad, HasUploads
  <2> QED
    BY <1>5, <2>3, <2>4 DEF UploadMoves
<1>6. ASSUME NEW u \in uploads, UploadAnswered(u)
      PROVE  CalmLoad' /\ CalmRequests'
  <2>1. /\ uploads = {u} /\ saves = {} /\ cfgLoad.pc = "done" /\ HasUploads(cfg)
        /\ u.file \in Files /\ u.path \in Paths
    BY <1>0, <1>2, <1>6 DEF CalmLoad, CalmRequests, UploadRequests
  <2>2. \A f \in Files : /\ f = u.file => storedCfg.path[f] = u.path
                         /\ f # u.file /\ lastUpload[f] # Unset => storedCfg.path[f] = lastUpload[f]
    BY <1>2, <1>6 DEF CalmRequests, UploadAnswered
  <2>3. cfg'.path[u.file] = u.path /\ \A g \in Files \ {u.file} : cfg'.path[g] = cfg.path[g]
    BY <1>0, <1>6, <2>1, WithPath DEF UploadAnswered
  <2>4. lastUpload'[u.file] = u.path /\ \A g \in Files \ {u.file} : lastUpload'[g] = lastUpload[g]
    BY <1>0, <1>6, <2>1 DEF UploadAnswered
  <2>5. uploads' = {} /\ UNCHANGED <<cfgLoad, saves, storedCfg>>
    BY <1>6, <2>1 DEF UploadAnswered
  <2>6. HasUploads(cfg)' /\ HasUploads(storedCfg)'
    BY <2>1, <2>2, <2>3, <2>4, <2>5 DEF HasUploads
  <2> QED
    BY <2>1, <2>5, <2>6 DEF CalmLoad, CalmRequests
<1> QED
  BY <1>3, <1>4, <1>5, <1>6 DEF ConfigAnswers

-----------------------------------------------------------------------------
(***************************************************************************)
(* The page "Custom Step Test".  Rows have ids of their own, so removing   *)
(* one removes no other; calm, what the server has and the user has not    *)
(* dropped is on the page once it is loaded, and in what is being saved.   *)
(***************************************************************************)

Row    == [id : Nat, rule : Rules \cup {BlankRule}]
OnPage == {customRules[k].rule : k \in DOMAIN customRules}

OwnIds ==
  /\ \A i, j \in DOMAIN customRules : customRules[i].id = customRules[j].id => i = j
  /\ \A i \in DOMAIN customRules : customRules[i].id < nextCustomId

CalmRules ==
  rulesCalm =>
    /\ ruleLoad.pc # "done" => ruleSaves = {}
    /\ ruleLoad.pc = "answered" => ruleLoad.value = storedRules
    /\ ruleLoad.pc = "done" => ToSet(storedRules) \ droppedRules \subseteq OnPage
    /\ \A s, t \in ruleSaves : s = t
    /\ \A s \in ruleSaves : /\ ToSet(storedRules) \ droppedRules \subseteq ToSet(s.value)
                            /\ ToSet(s.value) \ droppedRules \subseteq OnPage

RulesInv == RuleTypeOK /\ OwnIds /\ CalmRules

\* Numbering rules: rows with ids of their own, from the first on.
LEMMA NumberedFacts ==
  ASSUME NEW rules \in Seq(Rules \cup {BlankRule}), NEW first \in Nat
  PROVE  /\ Numbered(rules, first) \in Seq(Row)
         /\ Len(Numbered(rules, first)) = Len(rules)
         /\ \A k \in 1..Len(rules) : /\ Numbered(rules, first)[k].id = first + k - 1
                                     /\ Numbered(rules, first)[k].rule = rules[k]
<1>1. Len(rules) \in Nat /\ DOMAIN rules = 1..Len(rules)
  OBVIOUS
<1>2. \A k \in 1..Len(rules) : rules[k] \in Rules \cup {BlankRule} /\ first + k - 1 \in Nat
  BY <1>1
<1>3. Numbered(rules, first) = [k \in 1..Len(rules) |-> [id |-> first + k - 1, rule |-> rules[k]]]
  BY <1>1 DEF Numbered, IdAt
<1>4. Numbered(rules, first) \in [1..Len(rules) -> Row]
  BY <1>2, <1>3 DEF Row
<1>5. Numbered(rules, first) \in Seq(Row) /\ Len(Numbered(rules, first)) = Len(rules)
  BY <1>1, <1>4
<1> QED
  BY <1>3, <1>5

\* The rules of the rows.
LEMMA RulesOfFacts ==
  ASSUME customRules \in Seq(Row)
  PROVE  RulesOf(customRules) \in Seq(Rules \cup {BlankRule}) /\ ToSet(RulesOf(customRules)) = OnPage
<1>1. Len(customRules) \in Nat /\ DOMAIN customRules = 1..Len(customRules)
  OBVIOUS
<1>2. \A k \in 1..Len(customRules) : customRules[k].rule \in Rules \cup {BlankRule}
  <2>1. \A k \in 1..Len(customRules) : customRules[k] \in Row
    BY <1>1
  <2> QED
    BY <2>1 DEF Row
<1>3. RulesOf(customRules) \in [1..Len(customRules) -> Rules \cup {BlankRule}]
  BY <1>1, <1>2 DEF RulesOf
<1> QED
  BY <1>1, <1>3 DEF RulesOf, OnPage, ToSet

LEMMA RulesInit == RuleInit => RulesInv
<1> SUFFICES ASSUME RuleInit PROVE RulesInv
  OBVIOUS
<1>1. <<>> \in Seq(Row) /\ <<>> \in Seq(Rules \cup {BlankRule})
  OBVIOUS
<1>2. RuleTypeOK
  BY <1>1, RulesAssumption DEF RuleInit, RuleTypeOK, Row
<1> QED
  BY <1>2 DEF RuleInit, RulesInv, OwnIds, CalmRules

\* A change of the rows: what is dropped is noted, all else stays on the page.
LEMMA ChangesKeep ==
  ASSUME RulesInv, NEW rows \in Seq(Row), NEW dropped \in SUBSET (Rules \cup {BlankRule}),
         Changes(rows, dropped), nextCustomId' \in Nat, OwnIds', OnPage \ dropped \subseteq OnPage'
  PROVE  RulesInv'
<1>1. RuleTypeOK'
  BY DEF RulesInv, RuleTypeOK, Changes, Row
<1>2. CalmRules'
  <2> SUFFICES ASSUME rulesCalm PROVE CalmRules'
    BY DEF CalmRules, Changes
  <2>1. UNCHANGED <<ruleLoad, ruleSaves, storedRules>> /\ droppedRules' = droppedRules \cup dropped
    BY DEF Changes
  <2> QED
    BY <2>1 DEF RulesInv, CalmRules
<1> QED
  BY <1>1, <1>2 DEF RulesInv

LEMMA RuleClickInv ==
  ASSUME RulesInv, NEW no \in Nat, RuleClick(no)
  PROVE  RulesInv'
<1>0. /\ customRules \in Seq(Row) /\ nextCustomId \in Nat /\ Len(customRules) \in Nat
      /\ DOMAIN customRules = 1..Len(customRules) /\ OwnIds
      /\ \A k \in 1..Len(customRules) :
           /\ customRules[k] \in Row /\ customRules[k].id \in Nat
           /\ customRules[k].rule \in Rules \cup {BlankRule}
  <2>1. customRules \in Seq(Row) /\ nextCustomId \in Nat /\ OwnIds
    BY DEF RulesInv, RuleTypeOK, Row
  <2>2. Len(customRules) \in Nat /\ DOMAIN customRules = 1..Len(customRules)
    BY <2>1
  <2>3. \A k \in 1..Len(customRules) : customRules[k] \in Row
    BY <2>1, <2>2
  <2>4. \A row \in Row : row.id \in Nat /\ row.rule \in Rules \cup {BlankRule}
    BY DEF Row
  <2> QED
    BY <2>1, <2>2, <2>3, <2>4
<1>1. CASE AddCustomRule
  <2> DEFINE new == Numbered(<<BlankRule>>, nextCustomId)
             rows == customRules \o new
  <2>1. /\ new \in Seq(Row) /\ Len(new) = 1 /\ new[1].id = nextCustomId
    <3> DEFINE one == <<BlankRule>>
    <3>1. one \in Seq(Rules \cup {BlankRule}) /\ Len(one) = 1
      OBVIOUS
    <3>2. new = Numbered(one, nextCustomId)
      OBVIOUS
    <3> HIDE DEF one, new
    <3>3. new \in Seq(Row) /\ Len(new) = Len(one) /\ new[1].id = nextCustomId + 1 - 1
      BY <1>0, <3>1, <3>2, NumberedFacts
    <3> QED
      BY <1>0, <3>1, <3>3
  <2> HIDE DEF new
  <2>2. /\ rows \in Seq(Row) /\ Len(rows) = Len(customRules) + 1
        /\ DOMAIN rows = 1..Len(customRules) + 1
        /\ \A k \in 1..Len(customRules) : rows[k] = customRules[k]
        /\ rows[Len(customRules) + 1] = new[1]
    <3>0. /\ rows \in Seq(Row) /\ Len(rows) = Len(customRules) + Len(new)
          /\ \A k \in 1..Len(customRules) + Len(new) :
               rows[k] = IF k <= Len(customRules) THEN customRules[k] ELSE new[k - Len(customRules)]
      <4>1. new \in Seq(Row)
        BY <2>1
      <4> QED
        BY <1>0, <4>1, ConcatProperties, Zenon
    <3>1. /\ rows \in Seq(Row) /\ Len(rows) = Len(customRules) + 1
          /\ \A k \in 1..Len(customRules) + 1 :
               rows[k] = IF k <= Len(customRules) THEN customRules[k] ELSE new[k - Len(customRules)]
      BY <2>1, <3>0
    <3> HIDE DEF rows
    <3>2. DOMAIN rows = 1..Len(customRules) + 1
      BY <1>0, <2>1, <3>1
    <3>3. /\ Len(customRules) + 1 \in 1..Len(customRules) + 1
          /\ Len(customRules) + 1 - Len(customRules) = 1 /\ ~(Len(customRules) + 1 <= Len(customRules))
      BY <1>0
    <3>4. \A k \in 1..Len(customRules) : k \in 1..Len(customRules) + 1 /\ k <= Len(customRules)
      BY <1>0
    <3> QED
      BY <3>1, <3>2, <3>3, <3>4
  <2> HIDE DEF rows
  <2>3. Changes(rows, {}) /\ customRules' = rows /\ nextCustomId' = nextCustomId + 1
    BY <1>1 DEF AddCustomRule, Changes, rows, new
  <2>4. OwnIds'
    <3>1. \A i \in 1..Len(customRules) : rows[i].id \in Nat /\ rows[i].id < nextCustomId
      BY <1>0, <2>2 DEF OwnIds
    <3>2. \A i, j \in 1..Len(customRules) : rows[i].id = rows[j].id => i = j
      BY <1>0, <2>2 DEF OwnIds
    <3>3. rows[Len(customRules) + 1].id = nextCustomId
      BY <2>1, <2>2
    <3>4. \A i \in 1..Len(customRules) + 1 : i \in 1..Len(customRules) \/ i = Len(customRules) + 1
      BY <1>0
    <3>5. \A i \in 1..Len(customRules) + 1 : rows[i].id < nextCustomId + 1
      BY <1>0, <3>1, <3>3, <3>4
    <3>6. \A i, j \in 1..Len(customRules) + 1 : rows[i].id = rows[j].id => i = j
      BY <1>0, <3>1, <3>2, <3>3, <3>4
    <3> QED
      BY <2>2, <2>3, <3>5, <3>6 DEF OwnIds
  <2>5. OnPage \subseteq OnPage'
    BY <1>0, <2>2, <2>3 DEF OnPage
  <2> QED
    BY <1>0, <2>2, <2>3, <2>4, <2>5, ChangesKeep
<1>2. ASSUME NEW i \in DOMAIN customRules, RemoveCustomRule(i) PROVE RulesInv'
  <2> DEFINE places == {k \in DOMAIN customRules : customRules[k].id # customRules[i].id}
             rows == Kept(customRules, places)
             n == Cardinality(places)
  <2>1. /\ rows \in Seq(Row) /\ DOMAIN rows = 1..n /\ n \in Nat
        /\ \A k \in 1..n : InOrder(places)[k] \in places /\ rows[k] = customRules[InOrder(places)[k]]
        /\ \A j, k \in 1..n : j < k => InOrder(places)[j] < InOrder(places)[k]
        /\ \A j \in places : \E k \in 1..n : rows[k] = customRules[j]
    <3>1. places \in SUBSET DOMAIN customRules
      OBVIOUS
    <3> HIDE DEF places
    <3> QED
      BY <1>0, <3>1, KeptFacts
  <2>2. Changes(rows, {customRules[i].rule}) /\ customRules' = rows /\ nextCustomId' = nextCustomId
    BY <1>2 DEF RemoveCustomRule, Changes
  <2>3. \A k \in DOMAIN customRules : k # i => k \in places
    BY <1>0 DEF OwnIds
  <2>4. places \subseteq 1..Len(customRules)
    BY <1>0
  <2> HIDE DEF rows, places, n
  <2>5. OwnIds'
    <3>1. ASSUME NEW j \in 1..n, NEW k \in 1..n, rows[j].id = rows[k].id PROVE j = k
      <4> DEFINE a == InOrder(places)[j]
                 b == InOrder(places)[k]
      <4>1. /\ a \in 1..Len(customRules) /\ rows[j] = customRules[a]
            /\ b \in 1..Len(customRules) /\ rows[k] = customRules[b]
        BY <2>1, <2>4
      <4>2. (j < k => a < b) /\ (k < j => b < a)
        BY <2>1
      <4> HIDE DEF a, b
      <4>3. a = b
        BY <1>0, <3>1, <4>1 DEF OwnIds
      <4> QED
        BY <1>0, <2>1, <4>1, <4>2, <4>3
    <3>2. \A k \in 1..n : rows[k].id < nextCustomId
      <4>1. \A k \in 1..n : \E a \in 1..Len(customRules) : rows[k] = customRules[a]
        BY <2>1, <2>4
      <4> QED
        BY <1>0, <4>1 DEF OwnIds
    <3> QED
      BY <2>1, <2>2, <3>1, <3>2 DEF OwnIds
  <2>6. OnPage \ {customRules[i].rule} \subseteq OnPage'
    <3>1. ASSUME NEW k \in DOMAIN customRules, customRules[k].rule # customRules[i].rule
          PROVE  \E j \in 1..n : rows[j].rule = customRules[k].rule
      BY <2>1, <2>3, <3>1
    <3> QED
      BY <2>1, <2>2, <3>1 DEF OnPage
  <2> QED
    BY <1>0, <2>1, <2>2, <2>5, <2>6, ChangesKeep
<1>3. ASSUME NEW i \in DOMAIN customRules, NEW rule \in Rules, EditRule(i, rule) PROVE RulesInv'
  <2> DEFINE row == [customRules[i] EXCEPT !.rule = rule]
             rows == [customRules EXCEPT ![i] = row]
  <2>1. row \in Row /\ row.id = customRules[i].id
    BY <1>0 DEF Row
  <2> HIDE DEF row
  <2>2. /\ rows \in Seq(Row) /\ DOMAIN rows = DOMAIN customRules
        /\ \A k \in DOMAIN customRules : rows[k] = IF k = i THEN row ELSE customRules[k]
    BY <1>0, <2>1
  <2> HIDE DEF rows
  <2>3. Changes(rows, {customRules[i].rule}) /\ customRules' = rows /\ nextCustomId' = nextCustomId
    BY <1>3 DEF EditRule, Changes, rows, row
  <2>4. OwnIds'
    <3>1. \A k \in DOMAIN customRules : rows[k].id = customRules[k].id
      BY <2>1, <2>2
    <3> QED
      BY <1>0, <2>2, <2>3, <3>1 DEF OwnIds
  <2>5. OnPage \ {customRules[i].rule} \subseteq OnPage'
    BY <2>2, <2>3 DEF OnPage
  <2> QED
    BY <1>0, <2>2, <2>3, <2>4, <2>5, ChangesKeep
<1>4. CASE ClearCustomRules
  <2>1. Changes(<<>>, OnPage) /\ customRules' = <<>> /\ nextCustomId' = nextCustomId
    BY <1>0, <1>4, RulesOfFacts DEF ClearCustomRules, Changes
  <2>2. OwnIds' /\ OnPage \ OnPage \subseteq OnPage' /\ <<>> \in Seq(Row)
    BY <2>1 DEF OwnIds
  <2>3. OnPage \subseteq Rules \cup {BlankRule}
    BY <1>0 DEF OnPage
  <2> QED
    BY <1>0, <2>1, <2>2, <2>3, ChangesKeep
<1>5. CASE SaveCustomRules(no)
  <2> DEFINE save == [no |-> no, value |-> RulesOf(customRules)]
  <2>1. /\ save \in [no : Nat, value : Seq(Rules \cup {BlankRule})] /\ ToSet(save.value) = OnPage
    BY <1>0, RulesOfFacts
  <2> HIDE DEF save
  <2>2. /\ ruleSaves' = ruleSaves \cup {save}
        /\ rulesCalm' = (rulesCalm /\ ruleLoad.pc = "done" /\ ruleSaves = {})
        /\ UNCHANGED <<customRules, nextCustomId, ruleLoad, storedRules, droppedRules>>
    BY <1>5 DEF SaveCustomRules, save
  <2>3. rulesCalm' \in BOOLEAN
    BY <2>2, ZenonT(20)
  <2>4. RuleTypeOK'
    BY <2>1, <2>2, <2>3 DEF RulesInv, RuleTypeOK
  <2>5. CalmRules'
    BY <2>1, <2>2, ZenonT(40) DEF RulesInv, CalmRules, OnPage
  <2> QED
    BY <1>0, <2>2, <2>4, <2>5 DEF RulesInv, OwnIds
<1> QED
  BY <1>1, <1>2, <1>3, <1>4, <1>5 DEF RuleClick

LEMMA RuleAnswersInv ==
  ASSUME RulesInv, RuleAnswers
  PROVE  RulesInv'
<1> USE DEF RulesInv
<1>0. <<>> \in Seq(Rules \cup {BlankRule})
  OBVIOUS
<1>1. CASE RulesServed
  <2>1. RuleTypeOK'
    BY <1>1 DEF RulesServed, RuleTypeOK
  <2> QED
    BY <1>1, <2>1 DEF RulesServed, RuleTypeOK, OwnIds, CalmRules, OnPage
<1>2. CASE RulesFail
  <2>1. RuleTypeOK'
    BY <1>0, <1>2 DEF RulesFail, RuleTypeOK
  <2> QED
    BY <1>2, <2>1 DEF RulesFail, OwnIds, CalmRules
<1>3. CASE RulesSaved
  <2>1. PICK save \in ruleSaves : storedRules' = save.value /\ ruleSaves' = ruleSaves \ {save}
    BY <1>3 DEF RulesSaved
  <2>2. UNCHANGED <<customRules, nextCustomId, ruleLoad, droppedRules, rulesCalm>>
    BY <1>3 DEF RulesSaved
  <2>3. RuleTypeOK'
    BY <2>1, <2>2 DEF RuleTypeOK
  <2> QED
    BY <2>1, <2>2, <2>3 DEF OwnIds, CalmRules, OnPage
<1>4. CASE RulesAnswered
  <2> DEFINE value == ruleLoad.value
             rows == Numbered(value, nextCustomId)
  <2>1. value \in Seq(Rules \cup {BlankRule}) /\ nextCustomId \in Nat
    BY DEF RuleTypeOK
  <2>2. /\ rows \in Seq(Row) /\ Len(rows) = Len(value)
        /\ \A k \in 1..Len(value) : rows[k].id = nextCustomId + k - 1 /\ rows[k].rule = value[k]
    BY <2>1, NumberedFacts
  <2>3. Len(value) \in Nat /\ DOMAIN rows = 1..Len(value) /\ DOMAIN value = 1..Len(value)
    BY <2>1, <2>2
  <2>4. /\ customRules' = rows /\ nextCustomId' = nextCustomId + Len(value)
        /\ ruleLoad' = [pc |-> "done", value |-> <<>>] /\ ruleLoad.pc = "answered"
        /\ UNCHANGED <<ruleSaves, storedRules, droppedRules, rulesCalm>>
    BY <1>4 DEF RulesAnswered
  <2> HIDE DEF rows, value
  <2>5. RuleTypeOK'
    BY <1>0, <2>1, <2>2, <2>3, <2>4 DEF RuleTypeOK, Row
  <2>6. OwnIds'
    <3>1. \A j, k \in 1..Len(value) : rows[j].id = rows[k].id => j = k
      BY <2>1, <2>2, <2>3
    <3>2. \A k \in 1..Len(value) : rows[k].id < nextCustomId + Len(value)
      BY <2>1, <2>2, <2>3
    <3> QED
      BY <2>3, <2>4, <3>1, <3>2 DEF OwnIds
  <2>7. rulesCalm => value = storedRules /\ ruleSaves = {}
    BY <2>4 DEF CalmRules, value
  <2>8. ToSet(value) \subseteq OnPage'
    BY <2>2, <2>3, <2>4 DEF ToSet, OnPage
  <2> QED
    BY <2>4, <2>5, <2>6, <2>7, <2>8 DEF CalmRules
<1> QED
  BY <1>1, <1>2, <1>3, <1>4 DEF RuleAnswers

\* Calm, a step at the server leaves it the rules that were not dropped.
LEMMA RulesKept ==
  ASSUME RulesInv, rulesCalm, RuleAnswers
  PROVE  ToSet(storedRules) \ droppedRules \subseteq ToSet(storedRules')
BY DEF RulesInv, CalmRules, RuleAnswers, RulesServed, RulesAnswered, RulesFail, RulesSaved

-----------------------------------------------------------------------------
(* The pages beside each other                                             *)

SuiteInv  == SuiteTypeOK /\ FilteredIsCurrent /\ CalmSuites
ConfigInv == ConfigTypeOK /\ CalmConfig
TabInv    == activeTab \in {"config", "custom-step", "testsuite"} /\ clicks \in 0..MaxClicks
PagesInv  == SuiteInv /\ RulesInv /\ ConfigInv /\ TabInv

LEMMA PagesInit == Init => PagesInv
<1> SUFFICES ASSUME Init PROVE PagesInv
  OBVIOUS
<1>1. SuiteTypeOK /\ ConfigTypeOK
  BY SuiteInitType, ConfigInitType DEF Init
<1>2. FilteredIsCurrent
  BY DEF Init, SuiteInit, FilteredIsCurrent, Filtered
<1>3. CalmSuites
  <2> DEFINE q == Request("load", 0, NoName, NoSuites)
  <2>1. q.kind = "load" /\ q.pc = "sent" /\ Request("catalog", 0, NoName, NoSuites).kind = "catalog"
    BY DEF Request
  <2> HIDE DEF q
  <2>2. OfSuites = {q}
    BY <2>1 DEF Init, SuiteInit, OfSuites, q
  <2>3. Fits(q)
    BY <2>1 DEF Fits
  <2> QED
    BY <2>2, <2>3 DEF CalmSuites
<1>4. CalmConfig
  BY DEF Init, ConfigInit, CalmConfig, CalmLoad, CalmRequests, HasUploads
<1> QED
  BY <1>1, <1>2, <1>3, <1>4, RulesInit, SettingsAssumption DEF PagesInv, SuiteInv, ConfigInv, TabInv, Init

\* A page that stands still keeps its invariant.
LEMMA SuiteStill ==
  ASSUME SuiteInv, UNCHANGED suiteVars
  PROVE  SuiteInv'
<1>1. SuiteTypeOK'
  BY DEF SuiteInv, SuiteTypeOK, suiteVars
<1>2. FilteredIsCurrent'
  BY DEF SuiteInv, FilteredIsCurrent, Filtered, suiteVars
<1>3. CalmSuites'
  BY CalmEdit DEF SuiteInv, suiteVars
<1> QED
  BY <1>1, <1>2, <1>3 DEF SuiteInv

LEMMA ConfigStill ==
  ASSUME ConfigInv, UNCHANGED configVars
  PROVE  ConfigInv'
BY DEF ConfigInv, ConfigTypeOK, CalmConfig, CalmLoad, CalmRequests, HasUploads, configVars

LEMMA RulesStill ==
  ASSUME RulesInv, UNCHANGED ruleVars
  PROVE  RulesInv'
BY DEF RulesInv, RuleTypeOK, OwnIds, CalmRules, OnPage, ruleVars

LEMMA PagesNext == PagesInv /\ [Next]_vars => PagesInv'
<1> SUFFICES ASSUME PagesInv, [Next]_vars PROVE PagesInv'
  OBVIOUS
<1>0. SuiteInv /\ RulesInv /\ ConfigInv /\ TabInv /\ clicks \in Nat
  BY SettingsAssumption DEF PagesInv, TabInv
<1>1. CASE Click
  <2>1. TabInv' /\ clicks' \in Nat
    BY <1>0, <1>1, SettingsAssumption DEF Click, TabInv
  <2>2. SuiteInv'
    <3>1. CASE UNCHANGED suiteVars
      BY <1>0, <3>1, SuiteStill
    <3>2. CASE SuiteClick(clicks')
      BY <1>0, <2>1, <3>2, SuiteClickType, FilteredClick, CalmClick DEF SuiteInv
    <3> QED
      BY <1>1, <3>1, <3>2 DEF Click, OnSuites, OnRules, OnConfig
  <2>3. ConfigInv'
    <3>1. CASE UNCHANGED configVars
      BY <1>0, <3>1, ConfigStill
    <3>2. CASE ConfigClick(clicks')
      BY <1>0, <2>1, <3>2, ConfigClickType, CalmConfigClick DEF ConfigInv
    <3> QED
      BY <1>1, <3>1, <3>2 DEF Click, OnSuites, OnRules, OnConfig
  <2>4. RulesInv'
    <3>1. CASE UNCHANGED ruleVars
      BY <1>0, <3>1, RulesStill
    <3>2. CASE RuleClick(clicks')
      BY <1>0, <2>1, <3>2, RuleClickInv
    <3> QED
      BY <1>1, <3>1, <3>2 DEF Click, OnSuites, OnRules, OnConfig
  <2> QED
    BY <2>1, <2>2, <2>3, <2>4 DEF PagesInv
<1>2. CASE Answer
  <2>1. TabInv'
    BY <1>0, <1>2 DEF Answer, TabInv
  <2>2. SuiteInv'
    <3>1. CASE UNCHANGED suiteVars
      BY <1>0, <3>1, SuiteStill
    <3>2. CASE SuiteAnswers
      BY <1>0, <3>2, SuiteAnswersType, FilteredAnswer, CalmAnswer DEF SuiteInv
    <3> QED
      BY <1>2, <3>1, <3>2 DEF Answer, OnSuites, OnRules, OnConfig
  <2>3. ConfigInv'
    <3>1. CASE UNCHANGED configVars
      BY <1>0, <3>1, ConfigStill
    <3>2. CASE ConfigAnswers
      BY <1>0, <3>2, ConfigAnswersType, CalmConfigAnswers DEF ConfigInv
    <3> QED
      BY <1>2, <3>1, <3>2 DEF Answer, OnSuites, OnRules, OnConfig
  <2>4. RulesInv'
    <3>1. CASE UNCHANGED ruleVars
      BY <1>0, <3>1, RulesStill
    <3>2. CASE RuleAnswers
      BY <1>0, <3>2, RuleAnswersInv
    <3> QED
      BY <1>2, <3>1, <3>2 DEF Answer, OnSuites, OnRules, OnConfig
  <2> QED
    BY <2>1, <2>2, <2>3, <2>4 DEF PagesInv
<1>3. CASE UNCHANGED vars
  BY <1>0, <1>3, SuiteStill, RulesStill, ConfigStill DEF vars, PagesInv, TabInv
<1> QED
  BY <1>1, <1>2, <1>3 DEF Next

LEMMA PagesAlways == Spec => []PagesInv
BY PagesInit, PagesNext, PTL DEF Spec

\* The state of the three pages is well formed, and so are their requests and what the
\* server stores (testsuite, custom-step-test and config.component.ts).
THEOREM PagesTyped == Spec => []TypeOK
<1>1. PagesInv => TypeOK
  BY DEF PagesInv, SuiteInv, RulesInv, ConfigInv, TabInv, TypeOK
<1> QED
  BY <1>1, PagesAlways, PTL

\* The cached list of cases (filteredTestcases) is what the filters and the selection say:
\* no handler that changes one of them forgets to filter again.
THEOREM FilteredCurrent == Spec => []FilteredIsCurrent
<1>1. PagesInv => FilteredIsCurrent
  BY DEF PagesInv, SuiteInv
<1> QED
  BY <1>1, PagesAlways, PTL

\* In calm use, with nothing out, the page shows the suites the server has, after loads that
\* succeed and after saves and removals that succeed or fail.
THEOREM ShownSuitesStored == Spec => []ShownSuitesAreStored
<1>1. PagesInv => ShownSuitesAreStored
  BY DEF PagesInv, SuiteInv, CalmSuites, OfSuites, ShownSuitesAreStored
<1> QED
  BY <1>1, PagesAlways, PTL

\* In calm use the file uploaded last is the one the server uses until another path is typed:
\* neither a save of the whole configuration, which has both paths, nor an upload of the other
\* file, whose handler reads it and writes it back, loses the path.
THEOREM UploadKept == Spec => []UploadIsKept
<1>1. PagesInv => UploadIsKept
  BY CalmKeepsUploads DEF PagesInv, ConfigInv
<1> QED
  BY <1>1, PagesAlways, PTL

\* In calm use a save or a removal, though it sends all suites and the server replaces all,
\* changes one suite at most.
THEOREM OneSuiteChanged == Spec => OneSuiteChanges
<1>1. ASSUME PagesInv, [Next]_vars, suiteCalm PROVE Cardinality(SuitesChanged) <= 1
  <2>1. SuiteTypeOK /\ CalmSuites
    BY <1>1 DEF PagesInv, SuiteInv
  <2>2. (\E q \in suiteRequests : SuiteServed(q)) \/ UNCHANGED storedSuites
    BY <1>1 DEF Next, Click, Answer, OnSuites, OnRules, OnConfig, vars, suiteVars, SuiteClick, SuiteAnswers,
                NewSuite, EditSuite, NameSuite, DeleteSuite, SelectAllCases, ClearFilteredCases, ClearCases,
                ChangeFilter, ToggleCase, SetAction, RefreshSuites, SaveSuite, Edits, Selects, Sends,
                SuiteFails, SuiteAnswered
  <2>3. PICK name : SameBut(storedSuites', storedSuites, name)
    BY <1>1, <2>1, <2>2, OneChanges DEF SameBut
  <2>4. SuitesChanged \subseteq {name}
    BY <2>3 DEF SameBut, SuitesChanged
  <2>5. IsFiniteSet({name}) /\ Cardinality({name}) = 1
    BY FS_Singleton
  <2>6. Cardinality(SuitesChanged) \in Nat /\ Cardinality(SuitesChanged) <= 1
    BY <2>4, <2>5, FS_Subset, FS_CardinalityType
  <2> QED
    BY <2>6
<1>2. PagesInv /\ [Next]_vars => [suiteCalm => Cardinality(SuitesChanged) <= 1]_vars
  BY <1>1
<1> QED
  BY <1>2, PagesAlways, PTL DEF Spec, OneSuiteChanges

\* In calm use no rule is lost that the user has not removed or changed: a save, which
\* replaces all rules, carries every other one, and removing a row removes that row alone.
THEOREM NoRuleLost == Spec => NoRuleIsLost
<1>1. ASSUME PagesInv, [Next]_vars, rulesCalm
      PROVE  ToSet(storedRules) \ droppedRules \subseteq ToSet(storedRules')
  <2>1. RuleAnswers \/ UNCHANGED storedRules
    BY <1>1 DEF Next, Click, Answer, OnSuites, OnRules, OnConfig, vars, ruleVars, RuleClick, AddCustomRule,
                ClearCustomRules, SaveCustomRules, RemoveCustomRule, EditRule, Changes
  <2> QED
    BY <1>1, <2>1, RulesKept DEF PagesInv
<1>2. PagesInv /\ [Next]_vars => [rulesCalm => ToSet(storedRules) \ droppedRules \subseteq ToSet(storedRules')]_vars
  BY <1>1
<1> QED
  BY <1>2, PagesAlways, PTL DEF Spec, NoRuleIsLost
===============================================================================
