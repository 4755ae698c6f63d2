--------------------------- MODULE MCOrderPoster ---------------------------
(* A buy and two sells: ladders of two                                         *)
(* chunks, a listing of two pages, cancels one by one or together.              *)
EXTENDS OrderPoster

MCOrders == 1..3
MCSideOf == <<"buy", "sell", "sell">>
=============================================================================
