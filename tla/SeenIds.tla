------------------------------- MODULE SeenIds -------------------------------
(***************************************************************************)
(* SeenIds (src/ws/util.rs): a set bounded by a FIFO of the same ids.      *)
(***************************************************************************)
EXTENDS Sequences, Integers

Empty == [set |-> {}, order |-> <<>>]

EvictsAtCap(seen, id, cap) ==       \* mutant: evicts when cap is reached, not passed
  LET order == Append(seen.order, id)
      full  == Len(order) >= cap
  IN  IF id \in seen.set THEN seen
      ELSE [set   |-> IF full THEN (seen.set \union {id}) \ {Head(order)} ELSE seen.set \union {id},
            order |-> IF full THEN Tail(order) ELSE order]

\* Record id, forgetting the oldest beyond cap.  An id already there is a
\* duplicate, and changes nothing.
Insert(seen, id, cap) ==
  LET order == Append(seen.order, id)
      full  == Len(order) > cap
  IN  IF id \in seen.set THEN seen
      ELSE [set   |-> IF full THEN (seen.set \union {id}) \ {Head(order)}
                              ELSE seen.set \union {id},
            order |-> IF full THEN Tail(order) ELSE order]
=============================================================================
