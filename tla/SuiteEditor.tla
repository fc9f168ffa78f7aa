----------------------------- MODULE SuiteEditor -----------------------------
(***************************************************************************)
(* The page "Testsuite" (testsuite.component.ts): a suite allows or denies *)
(* chosen cases of the catalog.  Every save and every removal sends all    *)
(* suites the page holds, and the server replaces all it has               *)
(* (routes_networks.py, save_testsuites of db.py).                         *)
(***************************************************************************)
EXTENDS Integers, FiniteSets, Functions

CONSTANTS
  Cases, Names,
  NoName,        \* an empty name
  Stored0        \* suites the server may have at first, functions from names

Actions  == {"ALLOW", "DENY"}
Chosen  == UNION {[S -> Actions] : S \in SUBSET Cases}
Contents == Chosen \ [{} -> Actions]
SuiteTables == UNION {[N -> Contents] : N \in SUBSET Names}

ASSUME SuiteAssumption == NoName \notin Names /\ Stored0 \subseteq SuiteTables

NoSuites == [n \in {} |-> {}]

VARIABLES
  suites,           \* this.suites: a function from names to [case -> action]
  testcases, filtered,
  filter,           \* [pass, onlySelected]: cases that the three filters let pass
  editor,           \* [name, selected, actions]
  suiteRequests,    \* [kind, no, pc, name, value]
  storedSuites,     \* at the server
  suiteCalm         \* history: no load failed, no two requests were out together

suiteVars == <<suites, testcases, filtered, filter, editor, suiteRequests, storedSuites, suiteCalm>>

Request(kind, no, name, value) ==
  [kind |-> kind, no |-> no, pc |-> "sent", name |-> name, value |-> value]

SuiteTypeOK ==
  /\ suites \in SuiteTables /\ storedSuites \in SuiteTables
  /\ filtered \subseteq testcases /\ testcases \subseteq Cases
  /\ filter \in [pass : SUBSET Cases, onlySelected : BOOLEAN]
  /\ editor \in [name : Names \cup {NoName}, selected : SUBSET Cases, actions : Chosen]
  /\ suiteRequests \subseteq [kind : {"load", "catalog", "save", "delete"}, no : Nat,
                            pc : {"sent", "done", "failed"}, name : Names \cup {NoName},
                            value : SuiteTables]
  /\ suiteCalm \in BOOLEAN

EmptyEditor == [name |-> NoName, selected |-> {}, actions |-> [c \in {} |-> "ALLOW"]]

\* ngOnInit: refresh.
SuiteInit ==
  /\ suites = NoSuites /\ testcases = {} /\ filtered = {}
  /\ filter = [pass |-> Cases, onlySelected |-> FALSE]
  /\ editor = EmptyEditor
  /\ storedSuites \in Stored0
  /\ suiteRequests = {Request("load", 0, NoName, NoSuites), Request("catalog", 0, NoName, NoSuites)}
  /\ suiteCalm = TRUE

\* applyFilters
Filtered(cases, f, ed) ==
  {c \in cases : c \in f.pass /\ (f.onlySelected => c \in ed.selected)}

-----------------------------------------------------------------------------
(***************************************************************************)
(* The editor                                                              *)
(***************************************************************************)

Edits(ed) ==
  /\ editor' = ed
  /\ filtered' = Filtered(testcases, filter, ed)
  /\ UNCHANGED <<suites, testcases, filter, suiteRequests, storedSuites, suiteCalm>>

NewSuite == Edits(EmptyEditor)

\* A suite of the list is taken over with its rules.
EditSuite(name) ==
  /\ name \in DOMAIN suites
  /\ Edits([name |-> name, selected |-> DOMAIN suites[name], actions |-> suites[name]])

NameSuite(name) ==
  /\ editor' = [editor EXCEPT !.name = name]
  /\ UNCHANGED <<suites, testcases, filtered, filter, suiteRequests, storedSuites, suiteCalm>>

\* Cases are selected, keeping an action they have, or else allowed.
Selecting(ed, cases) ==
  [ed EXCEPT !.selected = @ \cup cases,
             !.actions = [c \in DOMAIN @ \cup cases |-> IF c \in DOMAIN @ THEN @[c] ELSE "ALLOW"]]

\* Cases are cleared, and what was chosen for them with them.
Clearing(ed, cases) ==
  [ed EXCEPT !.selected = @ \ cases, !.actions = Restrict(@, DOMAIN @ \ cases)]

\* The list is filtered again only if it depends on what is selected.
FilteredAfter(ed) == IF filter.onlySelected THEN Filtered(testcases, filter, ed) ELSE filtered

Selects(ed) ==
  /\ editor' = ed
  /\ filtered' = FilteredAfter(ed)
  /\ UNCHANGED <<suites, testcases, filter, suiteRequests, storedSuites, suiteCalm>>

\* toggleCase, selectAllCases, clearFilteredCases, clearCases
ToggleCase(c) ==
  /\ c \in filtered
  /\ Selects(IF c \in editor.selected THEN Clearing(editor, {c}) ELSE Selecting(editor, {c}))
SelectAllCases     == filtered # {} /\ Selects(Selecting(editor, filtered))
ClearFilteredCases == filtered # {} /\ Selects(Clearing(editor, filtered))
ClearCases == editor.selected # {} /\ Selects([editor EXCEPT !.selected = {}, !.actions = EmptyEditor.actions])

SetAction(c, action) ==
  /\ c \in filtered /\ c \in editor.selected
  /\ editor' = [editor EXCEPT !.actions[c] = action]
  /\ UNCHANGED <<suites, testcases, filtered, filter, suiteRequests, storedSuites, suiteCalm>>

ChangeFilter ==
  /\ \E pass \in SUBSET Cases, only \in BOOLEAN : filter' = [pass |-> pass, onlySelected |-> only]
  /\ filtered' = Filtered(testcases, filter', editor)
  /\ UNCHANGED <<suites, testcases, editor, suiteRequests, storedSuites, suiteCalm>>

-----------------------------------------------------------------------------
(***************************************************************************)
(* Requests                                                                *)
(***************************************************************************)

Sends(r) ==
  /\ suiteRequests' = suiteRequests \cup r
  /\ suiteCalm' = (suiteCalm /\ \A s \in suiteRequests : s.kind = "catalog")
  /\ UNCHANGED <<suites, testcases, filtered, filter, editor, storedSuites>>

RefreshSuites(no) ==
  Sends({Request("load", no, NoName, NoSuites), Request("catalog", no, NoName, NoSuites)})

\* The table a save sends: that of the page, with the suite of the editor.
Content(ed) == [c \in ed.selected |-> IF c \in DOMAIN ed.actions THEN ed.actions[c] ELSE "ALLOW"]
With1(table, name, content) ==
  [n \in DOMAIN table \cup {name} |-> IF n = name THEN content ELSE table[n]]

\* Faulty: only the suite of the editor is sent.
UpdatedAlone(table, ed) == [n \in {ed.name} |-> Content(ed)]

Updated(table, ed) == With1(table, ed.name, Content(ed))

SaveSuite(no) ==
  /\ editor.name # NoName /\ editor.selected # {}
  /\ Sends({Request("save", no, editor.name, Updated(suites, editor))})

DeleteSuite(no, name) ==
  /\ name \in DOMAIN suites
  /\ Sends({Request("delete", no, name, Restrict(suites, DOMAIN suites \ {name}))})

\* The server: a load reads, the others replace everything in one transaction.
SuiteServed(r) ==
  /\ r \in suiteRequests /\ r.pc = "sent"
  /\ storedSuites' = IF r.kind \in {"save", "delete"} THEN r.value ELSE storedSuites
  /\ suiteRequests' = (suiteRequests \ {r}) \cup
       {[r EXCEPT !.pc = "done", !.value = IF r.kind = "load" THEN storedSuites ELSE @]}
  /\ UNCHANGED <<suites, testcases, filtered, filter, editor, suiteCalm>>

SuiteFails(r) ==
  /\ r \in suiteRequests /\ r.pc = "sent"
  /\ suiteRequests' = (suiteRequests \ {r}) \cup {[r EXCEPT !.pc = "failed"]}
  /\ suiteCalm' = (suiteCalm /\ r.kind # "load")
  /\ UNCHANGED <<suites, testcases, filtered, filter, editor, storedSuites>>

Load(r) == r.kind = "load"

\* Faulty: after a removal the page keeps the table it had.
SuitesAfterSave(r) ==
  CASE r.pc = "done" /\ r.kind \in {"load", "save"} -> r.value
    [] r.pc = "failed" /\ Load(r) -> NoSuites
    [] OTHER -> suites

\* this.suites after an answer: what was loaded, or what was sent when the button was
\* pressed; a load that fails leaves none.
SuitesAfter(r) ==
  CASE r.pc = "done" /\ r.kind # "catalog" -> r.value
    [] r.pc = "failed" /\ Load(r) -> NoSuites
    [] OTHER -> suites

Refilters(r) == r.kind = "catalog"

SuiteAnswered(r) ==
  /\ r \in suiteRequests /\ r.pc # "sent"
  /\ suiteRequests' = suiteRequests \ {r}
  /\ suites' = SuitesAfter(r)
  /\ testcases' = IF r.kind # "catalog" THEN testcases ELSE IF r.pc = "done" THEN Cases ELSE {}
  /\ editor' = IF r.kind = "delete" /\ r.pc = "done" /\ r.name = editor.name THEN EmptyEditor ELSE editor
  /\ filtered' = IF Refilters(r) \/ editor' # editor
                 THEN Filtered(testcases', filter, editor') ELSE filtered
  /\ UNCHANGED <<filter, storedSuites, suiteCalm>>

-----------------------------------------------------------------------------
\* One click; no tells requests apart.
SuiteClick(no) ==
  \/ NewSuite \/ SelectAllCases \/ ClearFilteredCases \/ ClearCases \/ ChangeFilter
  \/ \E name \in Names : EditSuite(name) \/ NameSuite(name) \/ DeleteSuite(no, name)
  \/ \E c \in Cases : ToggleCase(c) \/ \E action \in Actions : SetAction(c, action)
  \/ RefreshSuites(no) \/ SaveSuite(no)

SuiteAnswers == \E r \in suiteRequests : SuiteServed(r) \/ SuiteFails(r) \/ SuiteAnswered(r)
=============================================================================
