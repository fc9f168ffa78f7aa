----------------------------- MODULE MCRunPage -----------------------------
(***************************************************************************)
(* A small instance of RunPage for TLC.                                    *)
(***************************************************************************)
EXTENDS RunPage

TwoWorkers == {1, 2}

\* Bound: MaxLines and MaxUpsets are for a single start on an undisturbed page.  Two starts,
\* or a disturbed page, have one of each, and once disturbed one of the workers writes.
FewLinesAndUpsets ==
  /\ Cardinality(Clicked') > 1 \/ ~calm'
       => upsets' <= 1 /\ \A w \in Workers : worker'[w].lines <= 1
  /\ ~calm' => Cardinality({w \in Workers : worker'[w].lines > 0}) <= 1
=============================================================================
