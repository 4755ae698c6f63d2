------------------------------ MODULE OrderBook ------------------------------
(***************************************************************************)
(* Book (src/book.rs): the bid and the ask ladder of a token, each a       *)
(* function from the prices that have resting size to that size.           *)
(***************************************************************************)
EXTENDS Integers, SequencesExt

BookSides == {"bid", "ask"}

MergeSnapshot(book, snap) ==          \* mutant: the ladders are not cleared
  [side \in BookSides |->
     LET listed == {q \in DOMAIN snap[side] : snap[side][q] # 0}
     IN  [p \in listed \union DOMAIN book[side] |-> IF p \in listed THEN snap[side][p] ELSE book[side][p]]]

\* Both ladders are replaced; a level of size zero is no level.
ApplySnapshot(book, snap) ==
  [side \in BookSides |->
     [p \in {q \in DOMAIN snap[side] : snap[side][q] # 0} |-> snap[side][p]]]

\* The new absolute size of one level; zero removes it.
ApplyDelta(book, side, price, size) ==
  LET prices == IF size = 0 THEN DOMAIN book[side] \ {price}
                            ELSE DOMAIN book[side] \union {price}
  IN  [book EXCEPT ![side] = [p \in prices |-> IF p = price THEN size ELSE book[side][p]]]

\* The ask depth at or below a price.
AskDepthUpTo(book, max) ==
  SumFunctionOnSet(book["ask"], {p \in DOMAIN book["ask"] : p <= max})

\* The ask price at which a walk up the ladder first covers `need`, the deepest
\* one when it never does.
NoPrice == "none"
AskPriceForSize(book, need) ==
  FoldLeft(LAMBDA at, price :
             IF at.covered THEN at
             ELSE LET cum == at.cum + book["ask"][price]
                  IN  [cum |-> cum, last |-> price, covered |-> cum >= need],
           [cum |-> 0, last |-> NoPrice, covered |-> FALSE],
           SetToSortSeq(DOMAIN book["ask"], <)).last
=============================================================================
