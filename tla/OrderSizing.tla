----------------------------- MODULE OrderSizing -----------------------------
(***************************************************************************)
(* Book summaries (src/clob/books.rs) and what an order may be: its size   *)
(* and price rails (src/clob/tick.rs).  Sizes and prices are in            *)
(* ten-thousandths of a share and of a dollar.                             *)
(***************************************************************************)
EXTENDS SequencesExt

Unit     == 10000
MinSize  == 5 * Unit
SizeStep == Unit \div 10
NoSize   == 0

FloorToStep(size) == (size \div SizeStep) * SizeStep

AsItStands(cap) == cap                    \* mutant: the cap is not floored
Stepped(cap) == FloorToStep(cap)

\* compute_order_size: within the thinnest leg, the maximum and the cash, and no
\* order below the minimum.
ComputeOrderSize(min_ask_size, max_size, max_cash, cost) ==
  LET cash == IF max_cash > 0 /\ cost > 0 THEN {(max_cash * Unit) \div cost} ELSE {}
      size == Stepped(Min({min_ask_size, max_size} \union cash))
  IN  IF size >= MinSize THEN size ELSE NoSize

TickEntry(tick) == [min_price |-> tick, max_price |-> Unit - tick]

\* fetch_book_map_at: the chunks are fetched at once and any failure is the whole
\* call's; within a chunk a book that does not parse is skipped alone.
ChunkCount(ids, batch) == (Len(ids) + batch - 1) \div batch
BookChunks(ids, batch) ==
  [i \in 1..ChunkCount(ids, batch) |-> SubSeq(ids, (i - 1) * batch + 1, Min({i * batch, Len(ids)}))]
ParseBooks(chunk, sound) == ToSet(chunk) \intersect sound
BookMap(ids, batch, sound) ==
  UNION {ParseBooks(chunk, sound) : chunk \in ToSet(BookChunks(ids, batch))}
=============================================================================
