-------------------------- MODULE MCConvertEngine --------------------------
(* One event, one call to a submission.  Three legs: plans of a merge, a    *)
(* truncated convert and its post-merge, or of nothing but cash to wrap.    *)
(* Two legs, for the run where everything may fail: a truncated convert and *)
(* its post-merge.                                                          *)
EXTENDS ConvertEngine

CONSTANTS a1, a2, a3

MCEventOf == [l \in Leg |-> "a"]
Known(l)  == [id |-> l, cid |-> TRUE, yid |-> TRUE]
Holding(no, yes, usdce, allowance) ==
  [no |-> no, yes |-> yes, usdce |-> usdce, pusd |-> 0, allowance |-> allowance]

ThreeLegs    == {a1, a2, a3}
ThreeJobs    == << <<Known(a1), Known(a2), Known(a3)>> >>
ThreeWallets == {Holding(a1 :> 2 @@ a2 :> 1 @@ a3 :> 1, a1 :> 1 @@ a2 :> 0 @@ a3 :> 0, 0, 0),
                 Holding([l \in Leg |-> 0], [l \in Leg |-> 0], 1, Unlimited)}

TwoLegs    == {a1, a2}
TwoJobs    == << <<Known(a1), Known(a2)>> >>
TwoWallets == {Holding([l \in Leg |-> 1], [l \in Leg |-> 0], 0, 0)}
=============================================================================
