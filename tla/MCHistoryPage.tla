---------------------------- MODULE MCHistoryPage ----------------------------
(***************************************************************************)
(* A small instance of HistoryPage for TLC: two runs, one to a page; one   *)
(* with any of several results, the other with one of them or none.        *)
(***************************************************************************)
EXTENDS HistoryPage

Pair == <<NetRow(2, 1, 1), NetRow(1, 2, 2)>>
Dry(cases) == [i \in DOMAIN cases |-> DryRun(cases[i])]
ResultOf(rows) == [provisioned |-> rows, skipped |-> <<>>, outcomes |-> Dry(GenerateTestCases(rows))]

\* One with a matrix, one without any case.
SmallResults == <<ResultOf(Pair), ResultOf(<<NetRow(1, 1, 1)>>)>>

FirstRunVaries == db[2].result = 1
MCInit == Init /\ FirstRunVaries
MCSpec == MCInit /\ [][Next]_vars
==============================================================================
