----------------------------- MODULE MCPrograms -----------------------------
(* Three programs on small wallets.  The sweep finds a negRisk event of      *)
(* three legs, one of two whose job misses ids, and a binary market.         *)
EXTENDS Programs

CONSTANTS a1, a2, a3, b1, b2, c1

MCLeg == {a1, a2, a3, b1, b2, c1}
MCEventOf == [l \in MCLeg |-> IF l = c1 THEN "c" ELSE IF l \in {b1, b2} THEN "b" ELSE "a"]
Known(l) == [id |-> l, cid |-> TRUE, yid |-> TRUE]
MCJobOf == [e \in {"a", "b", "c"} |->
              CASE e = "a" -> <<Known(a1), Known(a2), Known(a3)>>
                [] e = "b" -> <<[Known(b1) EXCEPT !.cid = FALSE], [Known(b2) EXCEPT !.yid = FALSE]>>
                [] e = "c" -> <<Known(c1)>>]

MCTokens == <<"t1", "t2", "t3">>

MCWallets ==
  {[no  |-> [l \in MCLeg |-> CASE l \in {a1, a2} -> no[l] [] l = b1 -> no[a2] [] OTHER -> 1],
    yes |-> [l \in MCLeg |-> CASE l \in {a1, b2} -> yes [] OTHER -> 0],
    usdce |-> 0, pusd |-> 0, allowance |-> 0] :
     no \in [{a1, a2} -> 0..2], yes \in 0..1}
=============================================================================
