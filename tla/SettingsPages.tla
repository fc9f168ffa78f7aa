---------------------------- MODULE SettingsPages ----------------------------
(***************************************************************************)
(* The pages of the application that edit what the server stores           *)
(* (app.component.ts).  They have no state, no request and no table of the *)
(* server in common, so what one of them can do is what it does on its     *)
(* own: here the user works on the page of one tab, and the others, which  *)
(* the application keeps hidden, stand still.                              *)
(***************************************************************************)
EXTENDS SuiteEditor, RulesPage, ConfigPage

CONSTANTS MaxClicks   \* bound: how often the user does something

ASSUME SettingsAssumption == MaxClicks \in Nat

VARIABLES activeTab, clicks

vars == <<suiteVars, ruleVars, configVars, activeTab, clicks>>

TypeOK ==
  /\ SuiteTypeOK /\ RuleTypeOK /\ ConfigTypeOK
  /\ activeTab \in {"config", "custom-step", "testsuite"} /\ clicks \in 0..MaxClicks

Init ==
  /\ SuiteInit /\ RuleInit /\ ConfigInit
  /\ activeTab \in {"config", "custom-step", "testsuite"} /\ clicks = 0

OnSuites == activeTab = "testsuite"   /\ UNCHANGED <<ruleVars, configVars>>
OnRules  == activeTab = "custom-step" /\ UNCHANGED <<suiteVars, configVars>>
OnConfig == activeTab = "config"      /\ UNCHANGED <<suiteVars, ruleVars>>

Click ==
  /\ clicks < MaxClicks /\ clicks' = clicks + 1
  /\ \/ OnSuites /\ SuiteClick(clicks')
     \/ OnRules /\ RuleClick(clicks')
     \/ OnConfig /\ ConfigClick(clicks')
  /\ UNCHANGED activeTab

Answer ==
  /\ \/ OnSuites /\ SuiteAnswers
     \/ OnRules /\ RuleAnswers
     \/ OnConfig /\ ConfigAnswers
  /\ UNCHANGED <<activeTab, clicks>>

Next == Click \/ Answer
Spec == Init /\ [][Next]_vars
-----------------------------------------------------------------------------
(***************************************************************************)
(* Properties.  "Calm": what was loaded had come before anything was       *)
(* saved, and no two requests of a page were out together.                 *)
(***************************************************************************)

\* The cached list of cases is what the filters and the selection say, in whatever order
\* they, the catalog and the answers to removals change.
FilteredIsCurrent == filtered = Filtered(testcases, filter, editor)

SuitesChanged ==
  {n \in Names : \/ (n \in DOMAIN storedSuites) # (n \in DOMAIN storedSuites')
                 \/ n \in DOMAIN storedSuites /\ storedSuites[n] # storedSuites'[n]}

\* Calm, saving a suite or removing it changes no other, although all are sent.
OneSuiteChanges == [][suiteCalm => Cardinality(SuitesChanged) <= 1]_vars

\* Calm, and with nothing out, the page shows the suites the server has.
ShownSuitesAreStored ==
  suiteCalm /\ suiteRequests = {} => suites = storedSuites

\* Calm, no rule is lost that the user has not removed or changed.
NoRuleIsLost ==
  [][rulesCalm => ToSet(storedRules) \ droppedRules \subseteq ToSet(storedRules')]_vars

\* Calm, the file uploaded last is the one the server uses until the user types another path:
\* in spite of saves of the whole configuration before and after, and of uploads of the other
\* file, whose handler writes the whole configuration too.
UploadIsKept ==
  configCalm /\ uploads = {}
    => \A f \in Files : lastUpload[f] # Unset => storedCfg.path[f] = lastUpload[f]

\* The password "is never sent again after this call" (routes_config.py, 44): a password for
\* which the page has got a session stays in the browser.
PasswordIsSentOnce == [][\A p \in Passwords : token' = p => passwordsSent'[p] = passwordsSent[p]]_vars
=============================================================================
