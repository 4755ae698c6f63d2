------------------------------ MODULE MCStreams ------------------------------
EXTENDS Streams, TLC

\* A book on two copies without recycling, recycling over two shards of two
\* copies, and the user channel on two copies, with and without a fault.
MCFans == {
  [channel |-> "market", shards |-> 1, copies |-> 2, period |-> 0, events |-> 3, faults |-> 1],
  [channel |-> "market", shards |-> 2, copies |-> 2, period |-> 4, events |-> 0, faults |-> 1],
  [channel |-> "user",   shards |-> 1, copies |-> 2, period |-> 4, events |-> 3, faults |-> 1],
  [channel |-> "user",   shards |-> 1, copies |-> 2, period |-> 4, events |-> 4, faults |-> 0] }

\* Two orders cross on one token, or on the two tokens of a market, whose prices
\* sum to one: our_maker_side names our side whenever it names one, and does
\* whenever the taker's side and outcome are known (our_maker_side).
Outcomes == {"yes", "no"}
Crosses(side, outcome, taker_side, taker_outcome) ==
  (outcome = taker_outcome) # (side = taker_side)
ASSUME MakerSideIsOurs ==
  \A side, taker_side \in {"buy", "sell"}, outcome, taker_outcome \in Outcomes :
    /\ Crosses(side, outcome, taker_side, taker_outcome) =>
         OurMakerSide(taker_side, taker_outcome, outcome) = side
    /\ OurMakerSide("unknown", taker_outcome, outcome) = "none"
    /\ OurMakerSide(taker_side, "none", outcome) = "none"

\* The price a walk up the ladder returns is the lowest one up to which the depth
\* covers the size, and the deepest one when the ladder is too thin
\* (ask_price_for_size, ask_depth_up_to).
ASSUME DepthQueriesAgree ==
  \A prices \in SUBSET (1..3), need \in 0..6 : \A asks \in [prices -> 1..2] :
    LET k        == [bid |-> <<>>, ask |-> asks]
        covering == {p \in prices : B!AskDepthUpTo(k, p) >= need}
        at       == B!AskPriceForSize(k, need)
    IN  IF prices = {} THEN at = B!NoPrice
        ELSE IF covering = {} THEN \A p \in prices : p <= at
        ELSE at \in covering /\ \A p \in covering : at <= p

Symmetry == Permutations(Trades)
=============================================================================
