------------------------------ MODULE MCRedeem ------------------------------
(* Pages of two rows, the last at offset two: four rows within reach, five  *)
(* listed at most.  Condition a (adapter) is held on both sides, b (CTF)    *)
(* and d (adapter) on one, c (CTF) is held of a named outcome.              *)
EXTENDS Redeem, TLC

CONSTANTS ay, an, by, cx, dy

MCRow    == {ay, an, by, cx, dy}
MCCondOf == ay :> "a" @@ an :> "a" @@ by :> "b" @@ cx :> "c" @@ dy :> "d"
MCSideOf == ay :> "yes" @@ an :> "no" @@ by :> "yes" @@ cx :> "other" @@ dy :> "yes"
MCNeg    == {"a", "d"}

\* One row beyond the cap, which splits condition a and leaves of it less
\* than min_shares_raw; and a listing that condition a may still join.
Split == <<ay, by, dy, cx, an>>
Short == <<by, dy, cx>>
Mixed == {Split, Short}
Whole == {Split}

Even   == [r \in MCRow |-> 2]
Uneven == {[Even EXCEPT ![ay] = 1]}
\* Also a wallet whose redeemed rows the index has not dropped yet.
UnevenOrSpent == Uneven \union {[r \in MCRow |-> 0]}
=============================================================================
