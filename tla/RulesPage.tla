------------------------------ MODULE RulesPage ------------------------------
(***************************************************************************)
(* The page "Custom Step Test" (custom-step-test.component.ts): a list of  *)
(* rules, loaded once, edited, and saved as a whole.                       *)
(***************************************************************************)
EXTENDS Integers, SequencesExt, Sublists

CONSTANTS
  Rules,        \* what a rule may say
  BlankRule,    \* a rule just added
  StoredRules0  \* what the server may have at first: sequences of rules

ASSUME RulesAssumption ==
  /\ BlankRule \notin Rules
  /\ StoredRules0 \subseteq Seq(Rules \cup {BlankRule})

VARIABLES
  customRules,  \* [id, rule]
  nextCustomId,
  ruleLoad,     \* getCustomStepRules: [pc, value]
  ruleSaves,    \* saveCustomStepRules requests: [no, value]
  storedRules,  \* at the server
  \* History: the rules the user has removed or changed; whether nothing was saved before
  \* the list was there, and no save overtook another.
  droppedRules, rulesCalm

ruleVars == <<customRules, nextCustomId, ruleLoad, ruleSaves, storedRules, droppedRules, rulesCalm>>

RuleTypeOK ==
  /\ customRules \in Seq([id : Nat, rule : Rules \cup {BlankRule}])
  /\ nextCustomId \in Nat
  /\ ruleLoad \in [pc : {"sent", "answered", "done"}, value : Seq(Rules \cup {BlankRule})]
  /\ ruleSaves \subseteq [no : Nat, value : Seq(Rules \cup {BlankRule})]
  /\ storedRules \in Seq(Rules \cup {BlankRule})
  /\ droppedRules \subseteq Rules \cup {BlankRule} /\ rulesCalm \in BOOLEAN

RuleInit ==
  /\ customRules = <<>> /\ nextCustomId = 1
  /\ ruleLoad = [pc |-> "sent", value |-> <<>>] /\ ruleSaves = {}
  /\ storedRules \in StoredRules0
  /\ droppedRules = {} /\ rulesCalm = TRUE

\* Faulty: every row gets the same id.
IdAtSame(first, k) == first

\* The id of the k-th of several new rows.
IdAt(first, k) == first + k - 1

Numbered(rules, first) == [k \in DOMAIN rules |-> [id |-> IdAt(first, k), rule |-> rules[k]]]

RulesServed ==
  /\ ruleLoad.pc = "sent"
  /\ ruleLoad' = [pc |-> "answered", value |-> storedRules]
  /\ UNCHANGED <<customRules, nextCustomId, ruleSaves, storedRules, droppedRules, rulesCalm>>

\* Rows added before are replaced.
RulesAnswered ==
  /\ ruleLoad.pc = "answered"
  /\ customRules' = Numbered(ruleLoad.value, nextCustomId)
  /\ nextCustomId' = nextCustomId + Len(ruleLoad.value)
  /\ ruleLoad' = [pc |-> "done", value |-> <<>>]
  /\ UNCHANGED <<ruleSaves, storedRules, droppedRules, rulesCalm>>

\* An error is passed over in silence.
RulesFail ==
  /\ ruleLoad.pc = "sent"
  /\ ruleLoad' = [pc |-> "done", value |-> <<>>]
  /\ rulesCalm' = FALSE
  /\ UNCHANGED <<customRules, nextCustomId, ruleSaves, storedRules, droppedRules>>

Changes(rules, dropped) ==
  /\ customRules' = rules
  /\ droppedRules' = droppedRules \cup dropped
  /\ UNCHANGED <<ruleLoad, ruleSaves, storedRules, rulesCalm>>

AddCustomRule ==
  /\ Changes(customRules \o Numbered(<<BlankRule>>, nextCustomId), {})
  /\ nextCustomId' = nextCustomId + 1

\* The rows with the id of row i go.
RemoveCustomRule(i) ==
  /\ Changes(Kept(customRules, {k \in DOMAIN customRules : customRules[k].id # customRules[i].id}),
             {customRules[i].rule})
  /\ UNCHANGED nextCustomId

EditRule(i, rule) ==
  /\ Changes([customRules EXCEPT ![i].rule = rule], {customRules[i].rule})
  /\ UNCHANGED nextCustomId

RulesOf(rows) == [k \in DOMAIN rows |-> rows[k].rule]

ClearCustomRules ==
  /\ Changes(<<>>, ToSet(RulesOf(customRules)))
  /\ UNCHANGED nextCustomId

SaveCustomRules(no) ==
  /\ ruleSaves' = ruleSaves \cup {[no |-> no, value |-> RulesOf(customRules)]}
  /\ rulesCalm' = (rulesCalm /\ ruleLoad.pc = "done" /\ ruleSaves = {})
  /\ UNCHANGED <<customRules, nextCustomId, ruleLoad, storedRules, droppedRules>>

\* All is replaced in one transaction; the answer changes only a message.
RulesSaved ==
  /\ \E save \in ruleSaves : storedRules' = save.value /\ ruleSaves' = ruleSaves \ {save}
  /\ UNCHANGED <<customRules, nextCustomId, ruleLoad, droppedRules, rulesCalm>>

RuleClick(no) ==
  \/ AddCustomRule \/ ClearCustomRules \/ SaveCustomRules(no)
  \/ \E i \in DOMAIN customRules : RemoveCustomRule(i) \/ \E rule \in Rules : EditRule(i, rule)

RuleAnswers == RulesServed \/ RulesAnswered \/ RulesFail \/ RulesSaved
=============================================================================
