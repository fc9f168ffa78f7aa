------------------------------- MODULE Sublists -------------------------------
(***************************************************************************)
(* What is left of a list when some of its elements are dropped, and the   *)
(* list of a set in an order: Array.filter of the pages, ORDER BY and      *)
(* sorted() of the server.  Neither SelectSeq nor a sort is used for them: *)
(* both are recursive, and nothing could be proved about what they keep.   *)
(***************************************************************************)
EXTENDS Integers, Sequences, FiniteSets

\* The numbers of a finite set, the smallest first.
InOrder(S) ==
  [k \in 1..Cardinality(S) |-> CHOOSE n \in S : Cardinality({m \in S : m < n}) = k - 1]

\* The elements of a sequence at the given positions, in their order.
Kept(seq, positions) ==
  [k \in 1..Cardinality(positions) |-> seq[InOrder(positions)[k]]]

\* The elements of a finite set, the first first; order, a set of pairs, is total on it.
Arranged(S, order) ==
  [k \in 1..Cardinality(S) |-> CHOOSE x \in S : Cardinality({y \in S : <<y, x>> \in order}) = k - 1]

\* A sequence arranged by an order of its positions.
Sorted(seq, order) == [k \in DOMAIN seq |-> seq[Arranged(DOMAIN seq, order)[k]]]

\* Tuples of numbers: what tells them apart first decides.
Lexicographic(S) ==
  {pair \in S \X S : \E n \in DOMAIN pair[1] : /\ pair[1][n] < pair[2][n]
                                               /\ \A m \in 1..(n - 1) : pair[1][m] = pair[2][m]}

\* Every element once, where it comes first.
Distinct(seq) == Kept(seq, {i \in DOMAIN seq : \A j \in 1..(i - 1) : seq[j] # seq[i]})
===============================================================================
