------------------------------ MODULE NegRisk ------------------------------
(***************************************************************************)
(* The contracts the relayer calls land on: the negRisk adapter (merge,    *)
(* convert) and the collateral onramp (approve, wrap).  They are not under *)
(* src/; their effect is the one src/convert.rs computes its plans from.   *)
(* A call is [op, legs, amount]; a wallet is the deposit wallet's balances.*)
(***************************************************************************)
EXTENDS SequencesExt

CONSTANTS
  Leg,        \* the outcome legs of every event the wallet may hold
  EventOf,    \* [Leg -> event]: two legs convert together iff equal here
  Unlimited   \* the allowance an approve sets (U256::MAX)

ASSUME UnlimitedAssumption == Unlimited \in Nat \ {0}

Wallet == [no : [Leg -> Nat], yes : [Leg -> Nat],
           usdce : Nat, pusd : Nat, allowance : Nat]

Merge(l, amount)      == [op |-> "merge",   legs |-> {l},  amount |-> amount]
Convert(legs, amount) == [op |-> "convert", legs |-> legs, amount |-> amount]
Approve               == [op |-> "approve", legs |-> {},   amount |-> Unlimited]
Wrap(amount)          == [op |-> "wrap",    legs |-> {},   amount |-> amount]

Call == [op : {"merge", "convert", "approve", "wrap"}, legs : SUBSET Leg, amount : Nat]

Cash(w) == w.usdce + w.pusd

\* The legs a convert of `legs` mints YES on: the rest of their event.
Complement(legs) == {l \in Leg \ legs : \E m \in legs : EventOf[l] = EventOf[m]}

\* A call burns what it names; a burn of more than is held reverts.
CallValid(w, c) ==
  /\ c.op \in {"merge", "convert"} => \A l \in c.legs : w.no[l] >= c.amount
  /\ c.op = "merge" => \A l \in c.legs : w.yes[l] >= c.amount
  /\ c.op = "wrap" => w.usdce >= c.amount /\ w.allowance >= c.amount

\* What a valid call does to the wallet.
ApplyCall(w, c) ==
  CASE c.op = "merge" ->
         [w EXCEPT !.no  = [l \in Leg |-> IF l \in c.legs THEN @[l] - c.amount ELSE @[l]],
                   !.yes = [l \in Leg |-> IF l \in c.legs THEN @[l] - c.amount ELSE @[l]],
                   !.usdce = @ + c.amount]
    [] c.op = "convert" ->
         [w EXCEPT !.no  = [l \in Leg |-> IF l \in c.legs THEN @[l] - c.amount ELSE @[l]],
                   !.yes = [l \in Leg |->
                              IF l \in Complement(c.legs) THEN @[l] + c.amount ELSE @[l]],
                   !.usdce = @ + (Cardinality(c.legs) - 1) * c.amount]
    [] c.op = "approve" -> [w EXCEPT !.allowance = Unlimited]
    [] c.op = "wrap" -> [w EXCEPT !.usdce = @ - c.amount, !.pusd = @ + c.amount,
                                  !.allowance = IF @ = Unlimited THEN @ ELSE @ - c.amount]

\* A batch is one transaction: every call in order, or none of them.
RunBatch(w, batch) ==
  FoldLeft(LAMBDA s, c : IF s.ok /\ CallValid(s.w, c)
                         THEN [ok |-> TRUE, w |-> ApplyCall(s.w, c)]
                         ELSE [ok |-> FALSE, w |-> w],
           [ok |-> TRUE, w |-> w], batch)
=============================================================================
