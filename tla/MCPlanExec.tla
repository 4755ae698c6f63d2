----------------------------- MODULE MCPlanExec -----------------------------
(* A job on three of an event's four legs and one on a single-leg event,    *)
(* small balances, with condition and YES token ids missing on one leg or    *)
(* on all.                                                                   *)
EXTENDS PlanExec

CONSTANTS a1, a2, a3, a4, b1

MCLeg == {a1, a2, a3, a4, b1}
MCEventOf == [l \in MCLeg |-> IF l = b1 THEN "b" ELSE "a"]

Job == {a1, a2, a3}
MCSnapshots ==
  {[no |-> [l \in MCLeg |-> IF l \in Job THEN no[l] ELSE 2],
    yes |-> [l \in MCLeg |-> IF l \in Job THEN yes[l] ELSE 1],
    usdce |-> 1, pusd |-> 0, allowance |-> 0] :
     no \in [Job -> 0..3], yes \in [Job -> 0..1]}

Known == {[l \in Job |-> l \notin missing] : missing \in {{}, {a1}, {a2}, {a3}, Job}}
JobOf(cid, yid) ==
  [i \in 1..3 |-> LET l == <<a1, a2, a3>>[i] IN [id |-> l, cid |-> cid[l], yid |-> yid[l]]]
MCJobLists ==
  {<<JobOf(cid, yid), <<[id |-> b1, cid |-> TRUE, yid |-> TRUE]>> >> :
     cid \in Known, yid \in Known}
=============================================================================
