-------------------------------- MODULE Lists --------------------------------
(***************************************************************************)
(* Filtering and sorting, as the code's iterators do it, in a form whose   *)
(* properties can be proved (ListsProofs).                                 *)
(***************************************************************************)
EXTENDS SequencesExt, Integers

\* iter().filter(): the elements of s that are in K, in their order.
Only(s, K) ==
  FoldLeft(LAMBDA kept, x : IF x \in K THEN Append(kept, x) ELSE kept, <<>>, s)

\* iter().sum()
SumUp(s) == FoldLeft(+, 0, s)

\* sort(): the numbers of S, smallest first.
Ascending(S) ==
  [k \in 1..Cardinality(S) |-> CHOOSE v \in S : Cardinality({u \in S : u <= v}) = k]
=============================================================================
