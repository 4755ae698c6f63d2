---------------------------- MODULE RedeemProofs ----------------------------
(***************************************************************************)
(* For every listing, page limit, offset cap, holding and bound of Redeem: *)
(* what a paged listing returned and its hit_cap say of the index, how     *)
(* many conditions a call counts, and what its batches paid.  PagingInv    *)
(* says how far a listing has got, CapInv what max_conditions leaves,      *)
(* Planned and BatchInv which calls are disjoint and pay when they are     *)
(* submitted, DrainInv what is yet to be redeemed.                         *)
(***************************************************************************)
EXTENDS Redeem, ListsProofs

\* The page limit and the offset cap are numbers.
LEMMA Sizes == PageLimit \in Nat \ {0} /\ MaxOffset \in Nat
BY PagingAssumption

USE Sizes

---------------------------------------------------------------------------
(* Paging.                                                                 *)

\* The state of a fetch: over an index that has not moved it has read a prefix
\* of it, and the offset is on a page boundary within the cap.
Paged ==
  /\ listed \in Seq(Row) /\ IsInjective(listed) /\ out \in Seq(Row)
  /\ fetch \in {"none", "all", "redeemable", "allDone", "redeemableDone", "failed"}
  /\ offset \in Nat /\ hitCap \in BOOLEAN /\ still \in BOOLEAN
  /\ Fetching => offset <= MaxOffset /\ offset % PageLimit = 0
  /\ Fetching /\ still => offset <= Len(listed) /\ out = SubSeq(listed, 1, offset)
PagingInv == Paged /\ RowsAreDistinct /\ HitCapIsHonest

\* What the index and the client may do.
PagingStep ==
  \/ \E what \in {"all", "redeemable"} : StartFetch(what)
  \/ PageStep
  \/ \E gone \in SUBSET Row : Delist(gone)
  \/ \E new \in Seq(Row) : IsInjective(new) /\ Enlist(new)
  \/ UNCHANGED pvars

\* Every multiple of the page limit is a page boundary.
LEMMA Multiple == \A m \in Nat : (m * PageLimit) % PageLimit = 0
OBVIOUS

\* The page boundary after one below the cap is within the cap.
LEMMA PageBoundary ==
  ASSUME NEW o \in Nat, o % PageLimit = 0, o < MaxOffset
  PROVE  o + PageLimit <= MaxOffset /\ (o + PageLimit) % PageLimit = 0
<1>1. ASSUME NEW a \in Nat, NEW p \in Nat \ {0}, a % p = 0 PROVE \E q \in Nat : a = q * p
  <2>1. a = (a \div p) * p /\ a \div p \in Nat
    BY <1>1
  <2>. QED
    BY <2>1
<1>2. PICK k \in Nat : o = k * PageLimit
  BY <1>1
<1>3. PICK q \in Nat : MaxOffset = q * PageLimit
  BY <1>1, PagingAssumption
<1>4. k < q
  <2>1. SUFFICES ASSUME q <= k PROVE FALSE
    OBVIOUS
  <2>2. k - q \in Nat /\ (k - q) * PageLimit >= 0 /\ (k - q) * PageLimit = k * PageLimit - q * PageLimit
    BY <2>1
  <2>. QED
    BY <1>2, <1>3, <2>2
<1>5. q - k - 1 \in Nat /\ (q - k - 1) * PageLimit >= 0
  BY <1>4
<1>6. (q - k - 1) * PageLimit = q * PageLimit - k * PageLimit - PageLimit
  OBVIOUS
<1>7. o + PageLimit = (k + 1) * PageLimit /\ k + 1 \in Nat
  BY <1>2
<1>. QED
  BY <1>2, <1>3, <1>5, <1>6, <1>7, Multiple

\* Nothing is paged at first.
LEMMA PagingInit == Init => PagingInv
<1>. SUFFICES ASSUME Init PROVE PagingInv
  OBVIOUS
<1>1. /\ out = <<>> /\ fetch = "none" /\ offset = 0 /\ hitCap = FALSE /\ still = TRUE
      /\ listed \in Seq(Row) /\ IsInjective(listed)
  BY PagingAssumption DEF Init, PInit
<1>2. IsInjective(out)
  BY <1>1 DEF IsInjective
<1>3. ~Fetching /\ fetch \notin {"allDone", "redeemableDone"}
  BY <1>1 DEF Fetching
<1>4. Paged
  <2>1. out \in Seq(Row) /\ offset \in Nat
    BY <1>1
  <2>. QED
    BY <1>1, <1>3, <2>1 DEF Paged
<1>. QED
  BY <1>2, <1>3, <1>4 DEF PagingInv, RowsAreDistinct, HitCapIsHonest

\* A page is a part of the index, to its end unless it is full.
LEMMA PageServed ==
  ASSUME Paged, Fetching
  PROVE  /\ Served \in Seq(Row) /\ IsInjective(Served) /\ ToSet(Served) \subseteq ToSet(listed)
         /\ Full => Served = SubSeq(listed, offset + 1, offset + PageLimit)
                      /\ offset + PageLimit <= Len(listed)
         /\ ~Full /\ offset <= Len(listed) =>
              Served = SubSeq(listed, offset + 1, Len(listed)) /\ Len(listed) < offset + PageLimit
<1>. DEFINE to == IF offset + PageLimit < Len(listed) THEN offset + PageLimit ELSE Len(listed)
<1>1. /\ listed \in Seq(Row) /\ IsInjective(listed) /\ Len(listed) \in Nat
      /\ offset \in Nat /\ offset <= MaxOffset
  BY DEF Paged
<1>2. to \in 0..Len(listed)
  BY <1>1
<1>3. Served = SubSeq(listed, offset + 1, to)
  <2>1. ~(offset > MaxOffset)
    BY <1>1
  <2>. QED
    BY <2>1 DEF Served
<1>4. CASE to < offset
  <2>1. Served = <<>>
    <3>1. offset + 1 \in Int /\ to \in Int /\ to < offset + 1
      BY <1>1, <1>2, <1>4
    <3>. HIDE DEF to
    <3>. QED
      BY <1>3, <3>1, SubSeqEmpty
  <2>2. Served \in Seq(Row) /\ IsInjective(Served) /\ ToSet(Served) = {} /\ Len(Served) = 0
    BY <2>1 DEF IsInjective, ToSet
  <2>3. ~Full /\ Len(listed) < offset
    BY <1>1, <1>4, <2>2 DEF Full
  <2>. QED
    BY <1>1, <2>2, <2>3
<1>5. CASE offset <= to
  <2>1. offset + 1 \in Nat \ {0} /\ to \in ((offset + 1) - 1)..Len(listed) /\ to - (offset + 1) + 1 = to - offset
    BY <1>1, <1>2, <1>5
  <2>2. /\ Served \in Seq(Row) /\ Len(Served) = to - offset
        /\ ToSet(Served) \subseteq ToSet(listed) /\ IsInjective(Served)
    <3>. HIDE DEF to
    <3>. QED
      BY <1>1, <1>3, <2>1, PartOf
  <2>3. Full => to = offset + PageLimit /\ offset + PageLimit <= Len(listed)
    BY <1>1, <2>2 DEF Full
  <2>4. ~Full => to = Len(listed) /\ Len(listed) < offset + PageLimit
    BY <1>1, <2>2 DEF Full
  <2>. HIDE DEF to
  <2>. QED
    BY <1>3, <2>2, <2>3, <2>4
<1>. QED
  BY <1>1, <1>2, <1>4, <1>5

\* What has been read with this page, over a still index: a longer prefix of
\* it, all of it unless the page is full.
Extended(o) ==
  /\ o \in Seq(Row)
  /\ fetch = "redeemable" \/ still => IsInjective(o)
  /\ still => /\ Unseen = Served
              /\ Full => o = SubSeq(listed, 1, offset + PageLimit)
                         /\ Len(o) = offset + PageLimit /\ offset + PageLimit <= Len(listed)
              /\ ~Full => o = listed /\ Len(o) < offset + PageLimit
Turned == out \o (IF fetch = "all" THEN Served ELSE Unseen)

\* A page extends what was read before it.
LEMMA PageExtends ==
  ASSUME PagingInv, Fetching
  PROVE  Extended(Turned)
<1>. DEFINE o == Turned
<1>. USE DEF Turned
<1>1. /\ Served \in Seq(Row) /\ IsInjective(Served)
      /\ Unseen \in Seq(Row) /\ IsInjective(Unseen) /\ ToSet(out) \intersect ToSet(Unseen) = {}
  <2>1. Served \in Seq(Row) /\ IsInjective(Served)
    BY PageServed DEF PagingInv
  <2>2. Unseen \in Seq(Row) /\ IsInjective(Unseen) /\ ToSet(Unseen) = ToSet(Served) \intersect (Row \ ToSet(out))
    BY <2>1, OnlyRange DEF Unseen
  <2>. QED
    BY <2>1, <2>2
<1>2. out \in Seq(Row) /\ listed \in Seq(Row) /\ IsInjective(listed) /\ offset \in Nat /\ Len(listed) \in Nat
  BY DEF PagingInv, Paged
<1>3. o \in Seq(Row)
  BY <1>1, <1>2, Concatenation
<1>4. ASSUME fetch = "redeemable" PROVE IsInjective(o)
  <2>1. IsInjective(out) /\ o = out \o Unseen
    BY <1>4 DEF PagingInv, RowsAreDistinct
  <2>. QED
    BY <1>1, <1>2, <2>1, Concatenation
<1>5. ASSUME still
      PROVE  /\ Unseen = Served /\ IsInjective(o)
             /\ Full => o = SubSeq(listed, 1, offset + PageLimit)
                        /\ Len(o) = offset + PageLimit /\ offset + PageLimit <= Len(listed)
             /\ ~Full => o = listed /\ Len(o) < offset + PageLimit
  <2>1. out = SubSeq(listed, 1, offset) /\ offset \in 0..Len(listed)
    BY <1>2, <1>5 DEF PagingInv, Paged
  <2>2. PICK to \in offset..Len(listed) :
               /\ Served = SubSeq(listed, offset + 1, to)
               /\ Full => to = offset + PageLimit
               /\ ~Full => to = Len(listed) /\ to < offset + PageLimit
    <3>1. CASE Full
      <4>1. offset + PageLimit \in offset..Len(listed)
        BY <1>2, <2>1, <3>1, PageServed DEF PagingInv
      <4>. QED
        BY <3>1, <4>1, PageServed DEF PagingInv
    <3>2. CASE ~Full
      <4>1. Len(listed) \in offset..Len(listed) /\ offset <= Len(listed)
        BY <1>2, <2>1
      <4>. QED
        BY <3>2, <4>1, PageServed DEF PagingInv
    <3>. QED
      BY <3>1, <3>2
  <2>3. /\ Len(Served) = to - offset /\ DOMAIN Served = 1..(to - offset)
        /\ \A i \in DOMAIN Served : offset + i \in 1..Len(listed) /\ Served[i] = listed[offset + i]
    <3>1. offset + 1 \in Nat \ {0} /\ to \in ((offset + 1) - 1)..Len(listed) /\ to - (offset + 1) + 1 = to - offset
          /\ \A i \in 1..(to - offset) : (offset + 1) + i - 1 = offset + i
      BY <1>2, <2>2
    <3>2. /\ Len(SubSeq(listed, offset + 1, to)) = to - (offset + 1) + 1
          /\ DOMAIN SubSeq(listed, offset + 1, to) = 1..(to - (offset + 1) + 1)
          /\ \A i \in 1..(to - (offset + 1) + 1) :
               /\ (offset + 1) + i - 1 \in 1..Len(listed)
               /\ SubSeq(listed, offset + 1, to)[i] = listed[(offset + 1) + i - 1]
      BY <1>2, <3>1, PartOf
    <3>. QED
      BY <2>2, <3>1, <3>2
  <2>4. DOMAIN out = 1..offset /\ \A j \in DOMAIN out : j \in 1..Len(listed) /\ out[j] = listed[j]
    <3>1. 1 \in Nat \ {0} /\ offset \in (1 - 1)..Len(listed) /\ offset - 1 + 1 = offset
          /\ \A j \in 1..offset : 1 + j - 1 = j
      BY <1>2, <2>1
    <3>. QED
      BY <1>2, <2>1, <3>1, PartOf
  <2>5. ToSet(Served) \intersect ToSet(out) = {}
    <3>1. ASSUME NEW i \in DOMAIN Served, NEW j \in DOMAIN out, Served[i] = out[j] PROVE FALSE
      <4>1. offset + i = j
        BY <1>2, <2>3, <2>4, <3>1 DEF IsInjective
      <4>. QED
        BY <1>2, <2>2, <2>3, <2>4, <4>1
    <3>. QED
      BY <3>1 DEF ToSet
  <2>6. Unseen = Served
    <3>1. ToSet(Served) \subseteq Row
      BY <1>1 DEF ToSet
    <3>2. ToSet(Served) \subseteq Row \ ToSet(out)
      BY <2>5, <3>1
    <3>. QED
      BY <1>1, <3>2, OnlyAll DEF Unseen
  <2>7. o = SubSeq(listed, 1, to)
    <3>1. o = SubSeq(listed, 1, offset) \o SubSeq(listed, offset + 1, to)
      BY <2>1, <2>2, <2>6
    <3>2. 1 \in 1..(Len(listed) + 1) /\ offset \in (1 - 1)..Len(listed)
      BY <1>2, <2>1
    <3>. QED
      BY <1>2, <2>2, <3>1, <3>2, ConcatAdjacentSubSeq
  <2>8. Len(o) = to /\ IsInjective(o)
    <3>1. 1 \in Nat \ {0} /\ to \in (1 - 1)..Len(listed) /\ to - 1 + 1 = to
      BY <1>2, <2>1
    <3>2. Len(SubSeq(listed, 1, to)) = to /\ IsInjective(SubSeq(listed, 1, to))
      BY <1>2, <3>1, PartOf
    <3>. QED
      BY <2>7, <3>2
  <2>9. to = Len(listed) => o = listed
    BY <1>2, <2>7, SubSeqFull
  <2>10. to \in Nat /\ to <= Len(listed)
    BY <1>2, <2>1
  <2>11. Full => o = SubSeq(listed, 1, offset + PageLimit) /\ Len(o) = offset + PageLimit /\ offset + PageLimit <= Len(listed)
    BY <2>2, <2>7, <2>8, <2>10
  <2>12. ~Full => o = listed /\ Len(o) < offset + PageLimit
    BY <2>2, <2>8, <2>9
  <2>. QED
    BY <2>6, <2>8, <2>11, <2>12
<1>. QED
  BY <1>3, <1>4, <1>5 DEF Extended

\* A call starts from nothing.
LEMMA StartIsPaged ==
  ASSUME PagingInv, NEW what \in {"all", "redeemable"}, StartFetch(what)
  PROVE  PagingInv'
<1>1. /\ fetch' = what /\ offset' = 0 /\ out' = <<>> /\ hitCap' = FALSE /\ still' = TRUE
      /\ listed' = listed /\ listed \in Seq(Row) /\ IsInjective(listed)
  BY DEF StartFetch, PagingInv, Paged
<1>2. IsInjective(out') /\ out' \in Seq(Row)
  BY <1>1 DEF IsInjective
<1>3. 0 % PageLimit = 0 /\ 0 <= Len(listed) /\ SubSeq(listed, 1, 0) = <<>>
  <2>1. (0 * PageLimit) % PageLimit = 0 /\ 0 * PageLimit = 0
    BY Multiple
  <2>. QED
    BY <1>1, <2>1
<1>4. Paged'
  <2>1. offset' \in Nat /\ hitCap' \in BOOLEAN /\ still' \in BOOLEAN /\ fetch' \in {"all", "redeemable"}
    BY <1>1
  <2>2. offset' <= MaxOffset /\ offset' % PageLimit = 0
    BY <1>1, <1>3
  <2>3. offset' <= Len(listed') /\ out' = SubSeq(listed', 1, offset')
    BY <1>1, <1>3
  <2>. QED
    BY <1>1, <1>2, <2>1, <2>2, <2>3 DEF Paged
<1>. QED
  BY <1>1, <1>2, <1>4 DEF PagingInv, RowsAreDistinct, HitCapIsHonest

\* The index keeps its rows distinct; once it moves nothing is claimed of
\* what was read meanwhile but what `seen` ensures.
LEMMA IndexMoves ==
  ASSUME PagingInv,
         (\E gone \in SUBSET Row : Delist(gone)) \/ (\E new \in Seq(Row) : IsInjective(new) /\ Enlist(new))
  PROVE  PagingInv'
<1>1. UNCHANGED <<call, missed>> /\ still' = (still /\ ~Fetching)
  BY DEF Delist, Enlist
<1>2. listed \in Seq(Row) /\ IsInjective(listed)
  BY DEF PagingInv, Paged
<1>3. listed' \in Seq(Row) /\ IsInjective(listed')
  <2>1. ASSUME NEW gone \in SUBSET Row, Delist(gone) PROVE listed' \in Seq(Row) /\ IsInjective(listed')
    BY <1>2, <2>1, OnlyRange DEF Delist
  <2>2. ASSUME NEW new \in Seq(Row), IsInjective(new), Enlist(new) PROVE listed' \in Seq(Row) /\ IsInjective(listed')
    BY <1>2, <2>2, Concatenation DEF Enlist
  <2>. QED
    BY <2>1, <2>2
<1>4. Paged'
  BY <1>1, <1>3 DEF PagingInv, Paged, Fetching, call
<1>5. RowsAreDistinct'
  BY <1>1 DEF PagingInv, RowsAreDistinct, Fetching, call
<1>6. HitCapIsHonest'
  BY <1>1 DEF PagingInv, HitCapIsHonest, call
<1>. QED
  BY <1>4, <1>5, <1>6 DEF PagingInv

\* A page, or its failure, keeps the state of the fetch.
LEMMA PageIsPaged ==
  ASSUME PagingInv, PageStep
  PROVE  PagingInv'
<1>0. listed' = listed /\ still' = still
  BY DEF PageStep, AllPage, RedeemablePage, PageFails
<1>1. CASE PageFails
  <2>1. fetch' = "failed" /\ offset' = 0 /\ out' = <<>> /\ UNCHANGED <<listed, hitCap, still, missed>>
    BY <1>1 DEF PageFails
  <2>2. IsInjective(out') /\ out' \in Seq(Row)
    BY <2>1 DEF IsInjective
  <2>. QED
    BY <2>1, <2>2 DEF PagingInv, Paged, RowsAreDistinct, HitCapIsHonest, Fetching
<1>2. CASE AllPage \/ RedeemablePage
  <2>1. Fetching /\ out' = Turned
    BY <1>2 DEF AllPage, RedeemablePage, Fetching, Turned
  <2>2. /\ out' \in Seq(Row)
        /\ fetch = "redeemable" \/ still => IsInjective(out')
        /\ still => /\ Unseen = Served
                    /\ Full => out' = SubSeq(listed, 1, offset + PageLimit)
                               /\ Len(out') = offset + PageLimit /\ offset + PageLimit <= Len(listed)
                    /\ ~Full => out' = listed /\ Len(out') < offset + PageLimit
    BY <2>1, PageExtends DEF Extended
  <2>3. /\ listed \in Seq(Row) /\ IsInjective(listed) /\ offset \in Nat /\ hitCap \in BOOLEAN /\ still \in BOOLEAN
        /\ offset <= MaxOffset /\ offset % PageLimit = 0
    BY <2>1 DEF PagingInv, Paged
  <2>4. CASE fetch' = fetch /\ GetNext /\ Full /\ offset < MaxOffset
    <3>1. offset' = offset + PageLimit /\ hitCap' = hitCap /\ offset' \in Nat
      BY <2>3, <2>4 DEF GetNext
    <3>2. offset' <= MaxOffset /\ offset' % PageLimit = 0
      BY <2>3, <2>4, <3>1, PageBoundary
    <3>3. still => out' = SubSeq(listed, 1, offset') /\ offset' <= Len(listed)
      BY <2>2, <2>4, <3>1
    <3>4. fetch' \in {"all", "redeemable"}
      BY <2>1, <2>4 DEF Fetching
    <3>5. Paged'
      BY <1>0, <2>2, <2>3, <3>1, <3>2, <3>3, <3>4 DEF Paged
    <3>6. RowsAreDistinct' /\ HitCapIsHonest'
      BY <1>0, <2>2, <2>4, <3>4 DEF RowsAreDistinct, HitCapIsHonest
    <3>. QED
      BY <3>5, <3>6 DEF PagingInv
  <2>5. CASE /\ ~(Full /\ offset < MaxOffset /\ (still \/ fetch = "all" \/ Unseen # <<>>)) /\ Missing /\ offset' = offset
             /\ \/ fetch = "all" /\ fetch' = "allDone" /\ hitCap' = hitCap
                \/ fetch = "redeemable" /\ fetch' = "redeemableDone" /\ hitCap' = Full
    <3>1. fetch' \in {"allDone", "redeemableDone"} /\ hitCap' \in BOOLEAN
      <4>1. Full \in BOOLEAN
        BY DEF Full
      <4>. QED
        BY <2>3, <2>5, <4>1, Zenon
    <3>2. Paged'
      BY <1>0, <2>2, <2>3, <2>5, <3>1 DEF Paged, Fetching
    <3>3. RowsAreDistinct'
      BY <1>0, <2>2, <2>5, <3>1 DEF RowsAreDistinct
    <3>4. ASSUME still
          PROVE  /\ missed' # {} => Len(out') = Reach
                 /\ Full <=> Len(out') = Reach
      <4>1. CASE Full
        <5>1. offset = MaxOffset
          BY <2>3, <2>5, <3>4, <4>1
        <5>. QED
          BY <2>2, <3>4, <4>1, <5>1 DEF Reach
      <4>2. CASE ~Full
        <5>1. missed' = {}
          BY <1>0, <2>2, <2>5, <3>4, <4>2 DEF Missing
        <5>2. Len(out') < offset + PageLimit /\ offset + PageLimit <= Reach /\ Len(out') \in Nat
          BY <2>2, <2>3, <3>4, <4>2 DEF Reach
        <5>3. Reach \in Nat /\ offset + PageLimit \in Nat
          BY <2>3 DEF Reach
        <5>. QED
          BY <4>2, <5>1, <5>2, <5>3
      <4>. QED
        BY <4>1, <4>2
    <3>5. HitCapIsHonest'
      BY <1>0, <2>5, <3>1, <3>4 DEF HitCapIsHonest, Reach
    <3>. QED
      BY <3>2, <3>3, <3>5 DEF PagingInv
  <2>6. still /\ Unseen = <<>> => ~Full
    <3>1. ASSUME still, Unseen = <<>>, Full PROVE FALSE
      <4>1. Len(Served) = 0
        BY <2>2, <3>1
      <4>. QED
        BY <3>1, <4>1 DEF Full
    <3>. QED
      BY <3>1
  <2>7. CASE AllPage
    BY <2>4, <2>5, <2>7 DEF AllPage, GetNext, ReturnAll
  <2>8. CASE RedeemablePage
    BY <2>4, <2>5, <2>6, <2>8 DEF RedeemablePage, GetNext, ReturnRedeemable
  <2>. QED
    BY <1>2, <2>7, <2>8
<1>. QED
  BY <1>1, <1>2 DEF PageStep

\* What the index and the client do keeps the state of the fetch.
LEMMA PagingNext == PagingInv /\ PagingStep => PagingInv'
<1>1. ASSUME PagingInv, UNCHANGED pvars PROVE PagingInv'
  BY <1>1 DEF pvars, call, PagingInv, Paged, RowsAreDistinct, HitCapIsHonest, Fetching
<1>. QED
  BY <1>1, StartIsPaged, IndexMoves, PageIsPaged DEF PagingStep

---------------------------------------------------------------------------
(* The planned calls of a pass.                                            *)

\* f is the order of the conditions of the first i rows, for each i.
OrderTrace(f, rows) ==
  /\ f \in [0..Len(rows) -> Seq(Condition)] /\ f[0] = <<>> /\ f[Len(rows)] = Order(rows)
  /\ \A i \in 1..Len(rows) :
       f[i] = IF CondOf[rows[i]] \in ToSet(f[i - 1]) THEN f[i - 1] ELSE Append(f[i - 1], CondOf[rows[i]])

\* The first-seen order is made row by row.
LEMMA OrderSteps ==
  ASSUME NEW rows \in Seq(Row)
  PROVE  \E f : OrderTrace(f, rows)
<1>. DEFINE n == Len(rows)
            X == Seq(Condition)
            d == [p \in X \X Row |-> IF CondOf[p[2]] \in ToSet(p[1]) THEN p[1] ELSE Append(p[1], CondOf[p[2]])]
            Body(g) == [t \in SUBSET (DOMAIN rows) |-> IF t = {} THEN <<>>
                            ELSE IF CondOf[rows[Max(t)]] \in ToSet(g[t \ {Max(t)}]) THEN g[t \ {Max(t)}]
                                 ELSE Append(g[t \ {Max(t)}], CondOf[rows[Max(t)]])]
            h == CHOOSE g : g = Body(g)
<1>1. n \in Nat /\ rows \in [1..n -> Row] /\ DOMAIN rows = 1..n /\ <<>> \in X
  OBVIOUS
<1>2. d \in [X \X Row -> X]
  <2>1. ASSUME NEW p \in X \X Row PROVE d[p] \in X
    <3>1. p[1] \in X /\ p[2] \in Row /\ CondOf[p[2]] \in Condition
      BY DEF Condition
    <3>. QED
      BY <3>1
  <2>. QED
    BY <2>1
<1>3. \A t \in SUBSET (1..n) : t # {} => rows[Max(t)] \in Row
  BY <1>1, MaxExists
<1>4. \A v \in X, x \in Row : d[<<v, x>>] = IF CondOf[x] \in ToSet(v) THEN v ELSE Append(v, CondOf[x])
  OBVIOUS
<1>5. PICK g \in [SUBSET (1..n) -> X] : Folding(g, n, rows, <<>>, d)
  <2>. HIDE DEF d, n, Body, h, X
  <2>. QED
    BY <1>1, <1>2, FoldExists
<1>6. g = Body(g)
  BY <1>1, <1>3, <1>4, <1>5 DEF Folding
<1>7. h = Body(h)
  BY <1>6
<1>8. Order(rows) = h[1..n]
  BY <1>1 DEF Order, FoldLeft, MapThenFoldSet
<1>9. Follows(h, rows, X, <<>>, d)
  <2>. HIDE DEF h, d, X
  <2>. QED
    BY ZenonT(40), <1>1, <1>3, <1>4, <1>7 DEF Follows
<1>10. Foldable(X, Row, <<>>, rows, d)
  BY <1>1, <1>2 DEF Foldable
<1>11. PICK f : Trace(f, X, rows, <<>>, d, h)
  <2>. HIDE DEF h, d, Body, X
  <2>. QED
    BY <1>9, <1>10, FoldTrace
<1>12. \A i \in 1..n : f[i - 1] \in X /\ rows[i] \in Row
  BY <1>1, <1>11 DEF Trace
<1>13. \A i \in 1..n : f[i] = IF CondOf[rows[i]] \in ToSet(f[i - 1]) THEN f[i - 1]
                              ELSE Append(f[i - 1], CondOf[rows[i]])
  <2>. HIDE DEF d, X
  <2>. QED
    BY <1>4, <1>11, <1>12 DEF Trace
<1>. HIDE DEF h, d
<1>. QED
  BY <1>8, <1>11, <1>13 DEF Trace, OrderTrace

\* The order of a page set's conditions has each of them once.
LEMMA OrderRange ==
  ASSUME NEW rows \in Seq(Row)
  PROVE  /\ Order(rows) \in Seq(Condition) /\ IsInjective(Order(rows))
         /\ \A c \in Condition : c \in ToSet(Order(rows)) <=> \E r \in ToSet(rows) : CondOf[r] = c
<1>. DEFINE n == Len(rows)
<1>1. PICK f : OrderTrace(f, rows)
  BY OrderSteps
<1>. DEFINE P(i) == /\ IsInjective(f[i])
                    /\ ToSet(f[i]) = {CondOf[rows[j]] : j \in 1..i}
            S == {i \in 0..n : P(i)}
<1>2. n \in Nat /\ DOMAIN rows = 1..n /\ 0 \in 0..n /\ n \in 0..n
  OBVIOUS
<1>3. 0 \in S
  BY <1>1, <1>2 DEF OrderTrace, IsInjective, ToSet
<1>4. ASSUME NEW i \in 0..(n - 1), i \in S PROVE i + 1 \in S
  <2>1. i + 1 \in 1..n /\ (i + 1) - 1 = i /\ i + 1 \in 0..n /\ i \in 0..n
    BY <1>2
  <2>2. P(i)
    BY <1>4
  <2>3. f[i] \in Seq(Condition) /\ rows[i + 1] \in Row /\ CondOf[rows[i + 1]] \in Condition
    <3>1. rows[i + 1] \in Row
      BY <2>1
    <3>2. f[i] \in Seq(Condition)
      BY <1>1, <2>1 DEF OrderTrace
    <3>. QED
      BY <3>1, <3>2 DEF Condition
  <2>4. {CondOf[rows[j]] : j \in 1..(i + 1)} = {CondOf[rows[j]] : j \in 1..i} \union {CondOf[rows[i + 1]]}
    BY <2>1
  <2>5. CASE CondOf[rows[i + 1]] \in ToSet(f[i])
    <3>1. f[i + 1] = f[i]
      BY <1>1, <2>1, <2>5 DEF OrderTrace
    <3>. QED
      BY <2>1, <2>2, <2>4, <2>5, <3>1
  <2>6. CASE CondOf[rows[i + 1]] \notin ToSet(f[i])
    <3>1. f[i + 1] = Append(f[i], CondOf[rows[i + 1]])
      BY <1>1, <2>1, <2>6 DEF OrderTrace
    <3>2. ToSet(f[i + 1]) = ToSet(f[i]) \union {CondOf[rows[i + 1]]} /\ IsInjective(f[i + 1])
      BY SMTT(20), <2>2, <2>3, <2>6, <3>1, Appending
    <3>. QED
      BY <2>1, <2>2, <2>4, <3>2
  <2>. QED
    BY <2>5, <2>6
<1>5. \A i \in 0..n : i \in S
  <2>. HIDE DEF S
  <2>. QED
    BY <1>2, <1>3, <1>4, UpTo
<1>6. P(n) /\ f[n] = Order(rows) /\ f[n] \in Seq(Condition)
  BY <1>1, <1>2, <1>5 DEF OrderTrace
<1>. QED
  BY <1>2, <1>6 DEF ToSet

\* A call redeems rows of a condition.
RCall == [cond : Condition, rows : SUBSET Row]

\* A condition held on no side is worth nothing, one worth something is held.
LEMMA HeldSides ==
  ASSUME bal \in [Row -> Nat], out \in Seq(Row), NEW c
  PROVE  /\ Held(c) \in Nat /\ Tokens(c) \subseteq {r \in Row : CondOf[r] = c}
         /\ Held(c) > 0 => \E r \in Tokens(c) : bal[r] > 0
         /\ (\A r \in Tokens(c) : bal[r] = 0) => Held(c) = 0
<1>1. Tokens(c) \subseteq {r \in Row : CondOf[r] = c}
  BY DEF Tokens, ToSet
<1>2. ASSUME NEW side
      PROVE  TokenHeld(c, side) = 0 \/ \E r \in Tokens(c) : TokenHeld(c, side) = bal[r]
  BY DEF TokenHeld
<1>3. \A r \in Tokens(c) : bal[r] \in Nat
  BY <1>1
<1>. QED
  BY <1>1, <1>2, <1>3 DEF Held

\* The call of a condition worth redeeming pays, redeems rows of that
\* condition alone, and leaves none of its held sides out.
LEMMA KeptCall ==
  ASSUME bal \in [Row -> Nat], out \in Seq(Row), NEW c \in Condition, Kept(c)
  PROVE  /\ Call(c) \in RCall /\ Call(c).cond = c
         /\ Pays(bal, Call(c)) /\ \A r \in Call(c).rows : CondOf[r] = c
         /\ \A r \in Tokens(c) : r \in Call(c).rows \/ bal[r] = 0
<1>1. PICK q \in Tokens(c) : bal[q] > 0
  BY HeldSides DEF Kept
<1>2. Tokens(c) \subseteq {r \in Row : CondOf[r] = c}
  BY HeldSides
<1>3. \A r \in Tokens(c) : bal[r] > 0 \/ bal[r] = 0
  BY <1>2
<1>. QED
  BY <1>1, <1>2, <1>3 DEF Call, RCall, Pays

\* A pass plans one call for every condition of the page set worth
\* redeeming, and none for another.
LEMMA PlannedCalls ==
  ASSUME bal \in [Row -> Nat], out \in Seq(Row)
  PROVE  /\ Calls \in Seq(RCall)
         /\ \A i \in DOMAIN Calls : /\ Calls[i].cond \in Condition /\ Kept(Calls[i].cond)
                                    /\ Calls[i] = Call(Calls[i].cond)
         /\ \A i, j \in DOMAIN Calls : Calls[i].cond = Calls[j].cond => i = j
         /\ \A r \in ToSet(out) : Kept(CondOf[r]) => \E i \in DOMAIN Calls : Calls[i].cond = CondOf[r]
<1>. DEFINE kept == Only(Order(out), {c \in Condition : Kept(c)})
<1>1. /\ Order(out) \in Seq(Condition) /\ IsInjective(Order(out))
      /\ \A c \in Condition : c \in ToSet(Order(out)) <=> \E r \in ToSet(out) : CondOf[r] = c
  BY OrderRange
<1>2. /\ kept \in Seq(Condition) /\ IsInjective(kept)
      /\ ToSet(kept) = ToSet(Order(out)) \intersect {c \in Condition : Kept(c)}
  BY <1>1, OnlyRange
<1>3. Calls = [i \in DOMAIN kept |-> Call(kept[i])]
  BY DEF Calls
<1>. HIDE DEF kept
<1>4. DOMAIN kept = 1..Len(kept) /\ Len(kept) \in Nat /\ DOMAIN Calls = DOMAIN kept
  BY <1>2, <1>3
<1>5. ASSUME NEW i \in DOMAIN kept
      PROVE  /\ kept[i] \in Condition /\ Kept(kept[i])
             /\ Calls[i] = Call(kept[i]) /\ Calls[i].cond = kept[i] /\ Calls[i] \in RCall
  <2>1. kept[i] \in ToSet(kept)
    BY DEF ToSet
  <2>2. kept[i] \in Condition /\ Kept(kept[i])
    BY <1>2, <2>1
  <2>3. Calls[i] = Call(kept[i])
    BY <1>3
  <2>. QED
    BY <2>2, <2>3, KeptCall
<1>6. Calls \in Seq(RCall)
  BY <1>3, <1>4, <1>5
<1>7. \A i, j \in DOMAIN Calls : Calls[i].cond = Calls[j].cond => i = j
  BY <1>2, <1>4, <1>5 DEF IsInjective
<1>8. ASSUME NEW r \in ToSet(out), Kept(CondOf[r]) PROVE \E i \in DOMAIN Calls : Calls[i].cond = CondOf[r]
  <2>1. CondOf[r] \in Condition
    BY DEF Condition, ToSet
  <2>2. CondOf[r] \in ToSet(kept)
    BY <1>1, <1>2, <1>8, <2>1
  <2>3. PICK i \in DOMAIN kept : kept[i] = CondOf[r]
    BY <2>2 DEF ToSet
  <2>. QED
    BY <1>4, <1>5, <2>3
<1>. QED
  BY <1>4, <1>5, <1>6, <1>7, <1>8

---------------------------------------------------------------------------
(* A pass.                                                                 *)

\* The pass is submitting its calls.
InBatch == pc \in {"submit", "busywait", "retrywait", "settle"}

\* The control state, and what a pass in submission has read and planned.
ControlInv ==
  /\ pc \in {"idle", "fetch", "submit", "busywait", "retrywait", "settle"}
  /\ bal \in [Row -> Nat] /\ ok \in Nat /\ bad \in Nat /\ max \in Nat
  /\ summary \in [redeemed : Nat, failed : Nat] /\ todo \in Seq(RCall)
  /\ {lost, skipped, reverted} \subseteq BOOLEAN
  /\ InBatch => fetch = "redeemableDone" /\ todo # <<>>

\* What has been counted and what is still planned fit max_conditions.
CapInv ==
  max > 0 => /\ Total <= max
             /\ pc = "fetch" => Total < max
             /\ InBatch => Total + ok + bad + Len(todo) <= max

\* The batch at the head of todo, and the rest.
LEMMA HeadSize ==
  ASSUME NEW s \in Seq(RCall), s # <<>>
  PROVE  /\ Smaller(BatchSize, Len(s)) \in 1..Len(s) /\ Len(s) \in Nat /\ DOMAIN s = 1..Len(s)
         /\ Len(SubSeq(s, 1, Smaller(BatchSize, Len(s)))) = Smaller(BatchSize, Len(s))
         /\ DOMAIN SubSeq(s, 1, Smaller(BatchSize, Len(s))) = 1..Smaller(BatchSize, Len(s))
         /\ \A i \in 1..Smaller(BatchSize, Len(s)) : SubSeq(s, 1, Smaller(BatchSize, Len(s)))[i] = s[i]
<1>1. Len(s) \in Nat \ {0} /\ DOMAIN s = 1..Len(s)
  OBVIOUS
<1>. DEFINE b == Smaller(BatchSize, Len(s))
<1>2. b \in 1..Len(s)
  BY <1>1, RedeemAssumption DEF Smaller
<1>. HIDE DEF b
<1>3. 1 \in Nat \ {0} /\ b \in (1 - 1)..Len(s) /\ b - 1 + 1 = b /\ \A i \in 1..b : 1 + i - 1 = i
  BY <1>1, <1>2
<1>4. /\ Len(SubSeq(s, 1, b)) = b - 1 + 1 /\ DOMAIN SubSeq(s, 1, b) = 1..(b - 1 + 1)
      /\ \A i \in 1..(b - 1 + 1) : SubSeq(s, 1, b)[i] = s[1 + i - 1]
  BY <1>1, <1>3, PartOf
<1>5. Len(SubSeq(s, 1, b)) = b /\ DOMAIN SubSeq(s, 1, b) = 1..b /\ \A i \in 1..b : SubSeq(s, 1, b)[i] = s[i]
  BY <1>3, <1>4
<1>. QED
  BY <1>1, <1>2, <1>5 DEF b

\* The batch at the head of todo and the rest make up todo.
LEMMA BatchParts ==
  ASSUME ControlInv, InBatch
  PROVE  \E b \in 1..Len(todo) :
           /\ Len(todo) \in Nat /\ DOMAIN todo = 1..Len(todo)
           /\ Len(Batch) = b /\ DOMAIN Batch = 1..b /\ \A i \in 1..b : Batch[i] = todo[i]
           /\ Rest \in Seq(RCall) /\ Len(Rest) = Len(todo) - b /\ DOMAIN Rest = 1..(Len(todo) - b)
           /\ \A i \in DOMAIN Rest : b + i \in DOMAIN todo /\ Rest[i] = todo[b + i]
<1>1. todo \in Seq(RCall) /\ todo # <<>> /\ Len(todo) \in Nat \ {0} /\ DOMAIN todo = 1..Len(todo)
  BY DEF ControlInv
<1>. DEFINE b == Smaller(BatchSize, Len(todo))
<1>2. b \in 1..Len(todo)
  BY <1>1, HeadSize
<1>4. Len(Batch) = b /\ DOMAIN Batch = 1..b /\ \A i \in 1..b : Batch[i] = todo[i]
  BY <1>1, HeadSize DEF Batch
<1>. HIDE DEF b
<1>5. Rest = SubSeq(todo, b + 1, Len(todo))
  BY <1>4 DEF Rest
<1>6. /\ Rest \in Seq(RCall) /\ Len(Rest) = Len(todo) - b /\ DOMAIN Rest = 1..(Len(todo) - b)
      /\ \A i \in DOMAIN Rest : b + i \in DOMAIN todo /\ Rest[i] = todo[b + i]
  <2>. DEFINE m == b + 1
  <2>1. m \in Nat \ {0} /\ Len(todo) \in (m - 1)..Len(todo) /\ Len(todo) - m + 1 = Len(todo) - b
        /\ \A i \in 1..(Len(todo) - b) : m + i - 1 = b + i /\ b + i \in 1..Len(todo)
    BY <1>1, <1>2
  <2>2. Rest = SubSeq(todo, m, Len(todo))
    BY <1>5
  <2>. HIDE DEF m
  <2>3. /\ SubSeq(todo, m, Len(todo)) \in Seq(RCall)
        /\ Len(SubSeq(todo, m, Len(todo))) = Len(todo) - m + 1
        /\ DOMAIN SubSeq(todo, m, Len(todo)) = 1..(Len(todo) - m + 1)
        /\ \A i \in 1..(Len(todo) - m + 1) : SubSeq(todo, m, Len(todo))[i] = todo[m + i - 1]
    BY <1>1, <2>1, PartOf
  <2>. QED
    BY <1>1, <2>1, <2>2, <2>3
<1>. QED
  BY <1>1, <1>2, <1>4, <1>6

\* What max_conditions leaves of the planned calls: some of them, and as
\* many as it allows.
LEMMA PlannedPart ==
  ASSUME bal \in [Row -> Nat], out \in Seq(Row), max \in Nat, max > 0 => Total < max, Total \in Nat,
         Calls # <<>>
  PROVE  \E m \in 1..Len(Calls) :
           /\ Truncate(Calls) \in Seq(RCall) /\ Len(Truncate(Calls)) = m /\ DOMAIN Truncate(Calls) = 1..m
           /\ \A i \in 1..m : i \in DOMAIN Calls /\ Truncate(Calls)[i] = Calls[i]
           /\ max > 0 => m <= max - Total
           /\ m = Len(Calls) \/ (max > 0 /\ m = max - Total)
<1>1. Calls \in Seq(RCall) /\ Len(Calls) \in Nat \ {0} /\ DOMAIN Calls = 1..Len(Calls)
  BY PlannedCalls
<1>2. CASE max > 0 /\ max - Total < Len(Calls)
  <2>. DEFINE m == max - Total
  <2>1. m \in 1..Len(Calls) /\ Truncate(Calls) = SubSeq(Calls, 1, m)
    BY <1>1, <1>2 DEF Truncate
  <2>. HIDE DEF m
  <2>2. 1 \in Nat \ {0} /\ m \in (1 - 1)..Len(Calls) /\ m - 1 + 1 = m /\ \A i \in 1..m : 1 + i - 1 = i
    BY <1>1, <2>1
  <2>3. /\ SubSeq(Calls, 1, m) \in Seq(RCall) /\ Len(SubSeq(Calls, 1, m)) = m - 1 + 1
        /\ DOMAIN SubSeq(Calls, 1, m) = 1..(m - 1 + 1)
        /\ \A i \in 1..(m - 1 + 1) : SubSeq(Calls, 1, m)[i] = Calls[1 + i - 1]
    BY <1>1, <2>2, PartOf
  <2>4. /\ Truncate(Calls) \in Seq(RCall) /\ Len(Truncate(Calls)) = m /\ DOMAIN Truncate(Calls) = 1..m
        /\ \A i \in 1..m : i \in DOMAIN Calls /\ Truncate(Calls)[i] = Calls[i]
    BY <1>1, <2>1, <2>2, <2>3
  <2>. QED
    BY <1>2, <2>1, <2>4 DEF m
<1>3. CASE ~(max > 0 /\ max - Total < Len(Calls))
  <2>1. Truncate(Calls) = Calls
    BY <1>3 DEF Truncate
  <2>2. max > 0 => Len(Calls) <= max - Total
    BY <1>1, <1>3
  <2>3. Len(Calls) \in 1..Len(Calls) /\ \A i \in 1..Len(Calls) : i \in DOMAIN Calls
    BY <1>1
  <2>. WITNESS Len(Calls) \in 1..Len(Calls)
  <2>. QED
    BY <1>1, <2>1, <2>2, <2>3
<1>. QED
  BY <1>2, <1>3

---------------------------------------------------------------------------
(* The steps a property can tell apart.                                    *)

\* A batch is disposed of, as redeemed or as failed.
Dispose ==
  /\ InBatch /\ NextBatch /\ UNCHANGED <<max, bal, reverted>>
  /\ \/ pc = "settle" /\ Landed /\ Counted /\ UNCHANGED <<inflight, lost, skipped>>
     \/ /\ pc = "submit" /\ ok' = ok /\ bad' = bad + Len(Batch) /\ skipped' = TRUE /\ claimed' = claimed
        /\ \/ UNCHANGED <<inflight, lost>>
           \/ Accept(Batch) /\ lost' = TRUE

\* A batch is submitted.
Submit ==
  /\ pc = "submit" /\ Accept(Batch)
  /\ UNCHANGED <<pvars, bal, reverted, max, todo, ok, bad, skipped, claimed, outcome>>
  /\ \/ pc' = "settle" /\ lost' = lost
     \/ pc' = "retrywait" /\ lost' = TRUE

\* Another try of a batch is refused, waits or is due.
Wait ==
  /\ InBatch /\ pc # "settle" /\ pc' \in {"submit", "busywait", "retrywait"}
  /\ UNCHANGED <<pvars, chain, max, todo, ok, bad, lost, skipped, claimed, outcome>>

\* An index or a page read moves, the wallet is used by others, or a call of
\* the client that is not redeem_all starts or ends.
Apart ==
  /\ UNCHANGED <<bal, reverted, max, todo, ok, bad, lost, skipped, claimed, summary>>
  /\ \/ Page /\ UNCHANGED <<pc, inflight, result>>
     \/ Others \/ Forget \/ Resolve
     \/ ListAll \/ PassFails \/ NothingListed \/ NothingHeld

\* Every step is one of these.
LEMMA Steps ==
  ASSUME [Next]_vars
  PROVE  RedeemAll \/ PlanPass \/ Land \/ Apart \/ Submit \/ Wait \/ Dispose \/ UNCHANGED vars
<1>1. CASE Page \/ ListAll \/ PassFails \/ NothingListed \/ NothingHeld \/ Others \/ Forget \/ Resolve
  BY <1>1 DEF Page, ListAll, PassFails, NothingListed, NothingHeld, Others, Forget, Resolve,
              Apart, chain, batch, outcome, Stop
<1>2. CASE Accepted
  BY <1>2 DEF Accepted, Submit, batch, outcome
<1>3. CASE WalletBusy \/ BusyWaited \/ RetryWaited
  BY <1>3 DEF WalletBusy, BusyWaited, RetryWaited, Wait, InBatch, batch, chain
<1>4. CASE Refused \/ WalletStillBusy
  <2>1. pc = "submit" /\ FailBatch /\ UNCHANGED <<chain, max, lost>>
    BY <1>4 DEF Refused, WalletStillBusy
  <2>. QED
    BY <2>1 DEF FailBatch, Wait, Dispose, InBatch, chain
<1>5. CASE Lost
  BY <1>5 DEF Lost, FailBatch, Submit, Dispose, InBatch
<1>6. CASE Settled
  BY <1>6 DEF Settled, Dispose, InBatch, chain
<1>. QED
  BY <1>1, <1>2, <1>3, <1>4, <1>5, <1>6 DEF Next, PassStep, BatchStep

\* A step of redeem_all pages, moves the index, or leaves both alone.
LEMMA PagingSteps ==
  ASSUME PagingInv, [Next]_vars, ControlInv
  PROVE  PagingInv'
<1>1. \A gone : Delist(gone) => \E g \in SUBSET Row : Delist(g)
  <2>1. ASSUME NEW gone, Delist(gone) PROVE Delist(gone \intersect Row)
    <3>1. listed \in Seq(Row)
      BY DEF PagingInv, Paged
    <3>2. ToSet(listed) \subseteq Row
      BY <3>1 DEF ToSet
    <3>3. Row \ gone = Row \ (gone \intersect Row)
      OBVIOUS
    <3>. QED
      BY <2>1, <3>2, <3>3 DEF Delist
  <2>. QED
    BY <2>1
<1>2. CASE Resolve
  <2>0. PICK c \in Condition : \E order \in SetToSeqs({r \in Row : CondOf[r] = c /\ bal[r] > 0}) : Enlist(order)
    BY <1>2 DEF Resolve
  <2>. DEFINE rows == {r \in Row : CondOf[r] = c /\ bal[r] > 0}
  <2>1. PICK order \in SetToSeqs(rows) : Enlist(order)
    BY <2>0
  <2>2. IsFiniteSet(rows) /\ rows \subseteq Row
    BY PagingAssumption, FS_Subset
  <2>. HIDE DEF rows
  <2>3. Cardinality(rows) \in Nat
    BY <2>2, FS_CardinalityType
  <2>4. order \in [1..Cardinality(rows) -> rows] /\ \A i, j \in 1..Cardinality(rows) : i # j => order[i] # order[j]
    BY <2>1 DEF SetToSeqs
  <2>5. order \in Seq(Row)
    BY <2>2, <2>3, <2>4
  <2>6. IsInjective(order)
    BY <2>4 DEF IsInjective
  <2>. QED
    BY <2>1, <2>5, <2>6, IndexMoves
<1>3. CASE Forget
  BY <1>1, <1>3, IndexMoves DEF Forget
<1>4. CASE Page
  BY <1>4, PageIsPaged DEF Page, PageStep
<1>5. CASE ListAll \/ RedeemAll
  <2>1. \E what \in {"all", "redeemable"} : StartFetch(what)
    BY <1>5 DEF ListAll, RedeemAll, NewPass
  <2>. QED
    BY <2>1, StartIsPaged
<1>6. CASE Dispose
  <2>1. UNCHANGED pvars \/ StartFetch("redeemable")
    BY <1>6 DEF Dispose, NextBatch, EndPass, Stop, NewPass
  <2>. QED
    BY <2>1, PagingNext DEF PagingStep
<1>7. CASE UNCHANGED pvars
  BY <1>7, PagingNext DEF PagingStep
<1>8. CASE PlanPass \/ Land \/ Submit \/ Wait \/ Others \/ PassFails \/ NothingListed \/ NothingHeld \/ UNCHANGED vars
  <2>1. UNCHANGED pvars
    BY <1>8 DEF PlanPass, Land, Submit, Wait, Others, PassFails, NothingListed, NothingHeld, Stop, vars
  <2>. QED
    BY <1>7, <2>1
<1>. QED
  BY <1>2, <1>3, <1>4, <1>5, <1>6, <1>8, Steps DEF Apart

\* The totals of a summary.
LEMMA AddTotals ==
  ASSUME NEW a \in Nat, NEW b \in Nat, NEW x \in Nat, NEW y \in Nat
  PROVE  (a + x) + (b + y) = (a + b) + x + y
OBVIOUS

\* A batch disposed of moves from todo to the counts of the pass.
LEMMA MoveBatch ==
  ASSUME NEW m \in Nat, NEW t \in Nat, NEW o \in Nat, NEW d \in Nat, NEW n \in Nat, NEW o2 \in Nat,
         NEW d2 \in Nat, NEW b \in Nat, NEW n2,
         n2 = n - b, o2 + d2 = o + d + b, m > 0 => t + o + d + n <= m
  PROVE  m > 0 => t + o2 + d2 + n2 <= m
OBVIOUS

\* The same of the last batch of a pass.
LEMMA LastBatch ==
  ASSUME NEW m \in Nat, NEW t \in Nat, NEW o \in Nat, NEW d \in Nat, NEW n \in Nat, NEW o2 \in Nat,
         NEW d2 \in Nat,
         o2 + d2 = o + d + n, m > 0 => t + o + d + n <= m
  PROVE  m > 0 => t + o2 + d2 <= m
OBVIOUS

\* How disposing of a batch ends: another one, the end of the call, or
\* another pass.
LEMMA Disposed ==
  ASSUME ControlInv, Dispose
  PROVE  /\ todo' = Rest /\ ok' \in Nat /\ bad' \in Nat /\ ok' + bad' = ok + bad + Len(Batch)
         /\ Rest # <<>> => pc' = "submit" /\ UNCHANGED <<pvars, outcome>>
         /\ Rest = <<>> =>
              /\ summary' \in [redeemed : Nat, failed : Nat] /\ Total' = Total + ok' + bad'
              /\ \/ pc' = "idle" /\ UNCHANGED pvars
                 \/ pc' = "fetch" /\ result' = result /\ StartFetch("redeemable")
              /\ pc' = "fetch" /\ max > 0 => Total' < max
              /\ pc' = "idle" /\ result' = "drained" => ~hitCap /\ (max > 0 => Total' < max)
<1>1. PICK b \in 1..Len(todo) : Len(todo) \in Nat /\ Len(Batch) = b
  BY BatchParts DEF Dispose
<1>2. ok \in Nat /\ bad \in Nat /\ max \in Nat /\ b \in Nat /\ summary \in [redeemed : Nat, failed : Nat]
  BY <1>1 DEF ControlInv
<1>3. \/ ok' = ok + b /\ bad' = bad
      \/ ok' = ok /\ bad' = bad + b
  BY <1>1 DEF Dispose, Counted
<1>4. ok' \in Nat /\ bad' \in Nat /\ ok' + bad' = ok + bad + Len(Batch)
  BY <1>1, <1>2, <1>3
<1>5. todo' = Rest /\ max' = max
  BY DEF Dispose, NextBatch
<1>6. Rest # <<>> => pc' = "submit" /\ UNCHANGED <<pvars, outcome>>
  BY DEF Dispose, NextBatch
<1>7. ASSUME Rest = <<>>
      PROVE  /\ summary' \in [redeemed : Nat, failed : Nat] /\ Total' = Total + ok' + bad'
             /\ \/ pc' = "idle" /\ UNCHANGED pvars
                \/ pc' = "fetch" /\ result' = result /\ StartFetch("redeemable")
             /\ pc' = "fetch" /\ max > 0 => Total' < max
             /\ pc' = "idle" /\ result' = "drained" => ~hitCap /\ (max > 0 => Total' < max)
  <2>1. EndPass
    BY <1>7 DEF Dispose, NextBatch
  <2>2. summary' = [redeemed |-> summary.redeemed + ok', failed |-> summary.failed + bad']
    BY <2>1 DEF EndPass
  <2>3. summary' \in [redeemed : Nat, failed : Nat] /\ Total' = Total + ok' + bad' /\ Total' \in Nat
    <3>1. summary.redeemed \in Nat /\ summary.failed \in Nat
      BY <1>2
    <3>2. summary'.redeemed = summary.redeemed + ok' /\ summary'.failed = summary.failed + bad'
      BY <2>2
    <3>3. summary' \in [redeemed : Nat, failed : Nat]
      BY SMTT(20), <1>4, <2>2, <3>1
    <3>4. Total' = Total + ok' + bad'
      BY SMTT(20), <1>4, <3>1, <3>2, AddTotals DEF Total
    <3>5. Total' \in Nat
      BY SMTT(20), <1>4, <3>1, <3>2 DEF Total
    <3>. QED
      BY <3>3, <3>4, <3>5
  <2>4. IF max > 0 /\ Total' >= max THEN Stop("cap")
        ELSE IF ok' = 0 THEN Stop("stuck")
        ELSE IF ~hitCap THEN Stop("drained")
        ELSE NewPass /\ UNCHANGED result
    BY <2>1 DEF EndPass, Total
  <2>5. (max > 0 /\ Total' >= max) \/ (max > 0 => Total' < max)
    BY <1>2, <2>3
  <2>. QED
    BY <2>3, <2>4, <2>5 DEF Stop, NewPass
<1>. QED
  BY <1>4, <1>5, <1>6, <1>7

\* Balances are only ever redeemed.
LEMMA BalancesFall ==
  ASSUME ControlInv, [Next]_vars
  PROVE  bal' \in [Row -> Nat] /\ \A r \in Row : bal'[r] = bal[r] \/ bal'[r] = 0
<1>1. bal \in [Row -> Nat]
  BY DEF ControlInv
<1>2. CASE Land
  BY <1>1, <1>2 DEF Land
<1>3. CASE bal' = bal
  BY <1>1, <1>3
<1>. QED
  BY <1>2, <1>3, Steps DEF RedeemAll, PlanPass, Apart, Submit, Wait, Dispose, vars, chain

\* Every step keeps the control state typed, and todo filled in a batch.
LEMMA ControlNext ==
  ASSUME PagingInv, ControlInv, CapInv, [Next]_vars
  PROVE  ControlInv'
<1>0. bal' \in [Row -> Nat]
  BY BalancesFall
<1>1. CASE Dispose
  <2>1. /\ ok' \in Nat /\ bad' \in Nat /\ Rest \in Seq(RCall) /\ todo' = Rest
    BY <1>1, Disposed, BatchParts DEF Dispose
  <2>2. summary' \in [redeemed : Nat, failed : Nat]
    <3>1. CASE Rest # <<>>
      BY <1>1, <3>1, Disposed DEF outcome, ControlInv
    <3>2. CASE Rest = <<>>
      BY <1>1, <3>2, Disposed
    <3>. QED
      BY <3>1, <3>2
  <2>3. max' \in Nat /\ {lost', skipped', reverted'} \subseteq BOOLEAN
    BY <1>1 DEF Dispose, ControlInv
  <2>4. \/ Rest # <<>> /\ pc' = "submit" /\ fetch' = "redeemableDone"
        \/ pc' = "idle" \/ pc' = "fetch"
    BY <1>1, Disposed DEF Dispose, ControlInv, pvars, call
  <2>. QED
    BY <1>0, <2>1, <2>2, <2>3, <2>4 DEF ControlInv, InBatch
<1>2. CASE PlanPass
  <2>1. /\ out \in Seq(Row) /\ bal \in [Row -> Nat] /\ max \in Nat /\ Total \in Nat
    BY DEF PagingInv, Paged, ControlInv, Total
  <2>2. max > 0 => Total < max
    BY <1>2, <2>1 DEF PlanPass, CapInv, InBatch, ControlInv
  <2>3. PICK m \in 1..Len(Calls) : Truncate(Calls) \in Seq(RCall) /\ Len(Truncate(Calls)) = m
    BY <1>2, <2>1, <2>2, PlannedPart DEF PlanPass
  <2>4. Truncate(Calls) # <<>>
    BY <2>3
  <2>. QED
    BY <1>0, <1>2, <2>3, <2>4 DEF PlanPass, ControlInv, InBatch, pvars, call, chain, outcome
<1>3. CASE Apart
  <2>1. ~InBatch => pc' \in {"idle", "fetch"}
    BY <1>3 DEF Apart, Page, Others, Forget, Resolve, ListAll, PassFails, NothingListed, NothingHeld, Stop, InBatch, ControlInv
  <2>2. InBatch => pc' = pc /\ fetch' = fetch
    <3>1. ASSUME InBatch PROVE ~Page /\ ~ListAll /\ ~PassFails /\ ~NothingListed /\ ~NothingHeld
      BY <3>1 DEF InBatch, ControlInv, Page, AllPage, RedeemablePage, PageFails, Fetching, ListAll, PassFails,
                  NothingListed, NothingHeld
    <3>2. ASSUME Others \/ Forget \/ Resolve PROVE pc' = pc /\ fetch' = fetch
      BY <3>2 DEF Others, Forget, Resolve, Delist, Enlist, pvars, call
    <3>. QED
      BY <1>3, <3>1, <3>2 DEF Apart
  <2>3. pc' \in {"idle", "fetch", "submit", "busywait", "retrywait", "settle"}
        /\ (InBatch' => fetch' = "redeemableDone" /\ todo # <<>>)
    BY <2>1, <2>2 DEF InBatch, ControlInv
  <2>. QED
    BY <1>0, <1>3, <2>3 DEF Apart, ControlInv
<1>4. CASE RedeemAll
  BY <1>0, <1>4 DEF RedeemAll, NewPass, ControlInv, InBatch, chain
<1>5. CASE Land
  BY <1>0, <1>5 DEF Land, ControlInv, InBatch, pvars, call, batch, outcome
<1>6. CASE Submit \/ Wait
  BY <1>0, <1>6 DEF Submit, Wait, ControlInv, InBatch, pvars, call, chain, outcome
<1>7. CASE UNCHANGED vars
  BY <1>7 DEF vars, ControlInv, InBatch, pvars, call, chain, batch, outcome
<1>. QED
  BY <1>1, <1>2, <1>3, <1>4, <1>5, <1>6, <1>7, Steps

\* Every step keeps the counts within max_conditions.
LEMMA CapNext ==
  ASSUME PagingInv, ControlInv, CapInv, [Next]_vars
  PROVE  CapInv'
<1>0. /\ ok \in Nat /\ bad \in Nat /\ max \in Nat /\ Total \in Nat /\ Len(todo) \in Nat
  BY DEF ControlInv, Total
<1>1. CASE Dispose
  <2>1. PICK b \in 1..Len(todo) : Len(Batch) = b /\ Len(Rest) = Len(todo) - b /\ Rest \in Seq(RCall)
    BY <1>1, BatchParts DEF Dispose
  <2>2. todo' = Rest /\ max' = max /\ ok' \in Nat /\ bad' \in Nat /\ ok' + bad' = ok + bad + b
    BY <1>1, <2>1, Disposed DEF Dispose
  <2>3. max > 0 => Total + ok + bad + Len(todo) <= max
    BY <1>0, <1>1 DEF CapInv, Dispose
  <2>4. CASE Rest # <<>>
    <3>1. Total' = Total /\ InBatch'
      BY <1>1, <2>4, Disposed DEF outcome, Total, InBatch
    <3>2. Len(todo') = Len(todo) - b /\ b \in Nat
      BY <1>0, <2>1, <2>2
    <3>3. max > 0 => Total + ok' + bad' + Len(todo') <= max
      BY <1>0, <2>2, <2>3, <3>2, MoveBatch, ZenonT(40)
    <3>4. max' > 0 => Total' <= max' /\ Total' + ok' + bad' + Len(todo') <= max'
      BY <1>1, <2>2, <3>1, <3>3 DEF CapInv
    <3>. QED
      BY <3>1, <3>4 DEF CapInv, InBatch
  <2>5. CASE Rest = <<>>
    <3>1. Len(Rest) = 0 /\ Total' = Total + ok' + bad' /\ ~InBatch' /\ pc' \in {"idle", "fetch"}
          /\ (pc' = "fetch" /\ max > 0 => Total' < max)
      BY <1>1, <2>5, Disposed DEF InBatch
    <3>3. b = Len(todo)
      BY <1>0, <2>1, <3>1
    <3>4. ok' + bad' = ok + bad + Len(todo)
      BY <2>2, <3>3
    <3>5. max > 0 => Total + ok' + bad' <= max
      <4>1. ok' \in Nat /\ bad' \in Nat
        BY <2>2
      <4>. QED
        BY <1>0, <2>3, <3>4, <4>1, LastBatch
    <3>2. max > 0 => Total' <= max
      BY <3>1, <3>5
    <3>. QED
      BY <1>0, <2>2, <3>1, <3>2 DEF CapInv
  <2>. QED
    BY <2>4, <2>5
<1>2. CASE PlanPass
  <2>1. max > 0 => Total < max
    BY <1>0, <1>2 DEF PlanPass, CapInv, InBatch
  <2>2. out \in Seq(Row) /\ bal \in [Row -> Nat]
    BY DEF PagingInv, Paged, ControlInv
  <2>3. PICK m \in 1..Len(Calls) : Len(Truncate(Calls)) = m /\ (max > 0 => m <= max - Total) /\ Len(Calls) \in Nat
    BY <1>0, <1>2, <2>1, <2>2, PlannedPart, PlannedCalls DEF PlanPass
  <2>4. InBatch' /\ ok' = 0 /\ bad' = 0 /\ Len(todo') = m /\ max' = max /\ Total' = Total
    BY <1>2, <2>3 DEF PlanPass, InBatch, outcome, Total
  <2>. QED
    BY <1>0, <2>1, <2>3, <2>4 DEF CapInv
<1>3. CASE RedeemAll
  BY <1>0, <1>3 DEF RedeemAll, NewPass, CapInv, InBatch, Total
<1>4. CASE Apart
  <2>1. pc' = pc \/ (~InBatch /\ pc' = "idle")
    BY <1>4 DEF Apart, Page, Others, Forget, Resolve, ListAll, PassFails, NothingListed, NothingHeld, Stop, InBatch
  <2>. QED
    BY <1>0, <1>4, <2>1 DEF Apart, CapInv, InBatch, Total
<1>5. CASE Land \/ Submit \/ Wait \/ UNCHANGED vars
  <2>1. UNCHANGED <<max, ok, bad, todo, summary>> /\ (pc' = pc \/ (InBatch /\ InBatch'))
    BY <1>5 DEF Land, Submit, Wait, vars, batch, outcome, InBatch
  <2>. QED
    BY <1>0, <2>1 DEF CapInv, InBatch, Total
<1>. QED
  BY <1>1, <1>2, <1>3, <1>4, <1>5, Steps

---------------------------------------------------------------------------
(* Batches: what is submitted pays, and what is counted was paid.          *)

\* Every call of the batch pays; none of its rows holds anything any more;
\* every call after it pays.
Fresh == \A i \in 1..Len(Batch) : Pays(bal, todo[i])
Spent == \A i \in 1..Len(Batch) : \A r \in todo[i].rows : bal[r] = 0
Later == \A i \in DOMAIN todo : i > Len(Batch) => Pays(bal, todo[i])

\* The calls of a pass are disjoint, and leave out no held side of their
\* conditions.
Planned ==
  InBatch =>
    /\ \A i \in DOMAIN todo : todo[i].rows # {}
    /\ \A i \in DOMAIN todo : \A r \in Tokens(todo[i].cond) : r \in todo[i].rows \/ bal[r] = 0
    /\ \A i, j \in DOMAIN todo : i # j => todo[i].rows \intersect todo[j].rows = {}

\* A batch pays until it has landed, once; only a lost response lets it be
\* submitted again, and only a batch given up then can spoil a later one.
BatchInv ==
  /\ claimed \subseteq Row
  /\ reverted => lost
  /\ ~skipped => \A r \in claimed : bal[r] = 0
  /\ ~(lost /\ skipped) =>
       /\ ~InBatch => Landed
       /\ InBatch => Later
       /\ InBatch /\ pc # "settle" =>
            \/ Fresh /\ Landed
            \/ lost /\ (Landed \/ inflight = Batch) /\ (Fresh \/ Spent)
       /\ pc = "settle" =>
            \/ Fresh /\ inflight = Batch
            \/ Spent /\ (Landed \/ (lost /\ inflight = Batch))

\* Within a pass nothing but its batches moves what a batch is made of.
LEMMA PassHolds ==
  ASSUME ControlInv, RedeemAll \/ Land \/ Apart \/ Submit \/ Wait \/ UNCHANGED vars, InBatch'
  PROVE  InBatch /\ out' = out /\ todo' = todo /\ max' = max /\ fetch' = fetch
<1>1. ~RedeemAll
  BY DEF RedeemAll, NewPass, InBatch
<1>2. CASE Apart
  <2>1. CASE Page \/ ListAll \/ PassFails \/ NothingListed \/ NothingHeld
    BY <1>2, <2>1 DEF InBatch, ControlInv, Page, AllPage, RedeemablePage, PageFails, Fetching, ListAll,
                  PassFails, NothingListed, NothingHeld, Stop, Apart
  <2>2. CASE Others \/ Forget \/ Resolve
    <3>1. out' = out /\ pc' = pc /\ fetch' = fetch
      BY <2>2 DEF Others, Forget, Resolve, Delist, Enlist, pvars, call
    <3>. QED
      BY <1>2, <3>1 DEF Apart, InBatch
  <2>. QED
    BY <1>2, <2>1, <2>2 DEF Apart
<1>3. CASE Land \/ Submit \/ Wait \/ UNCHANGED vars
  BY <1>3 DEF Land, Submit, Wait, vars, pvars, call, batch, InBatch
<1>. QED
  BY <1>1, <1>2, <1>3

\* Every step keeps the calls of a pass disjoint and covering.
LEMMA PlannedNext ==
  ASSUME PagingInv, ControlInv, CapInv, Planned, [Next]_vars
  PROVE  Planned'
<1>. SUFFICES ASSUME InBatch'
              PROVE  /\ \A i \in DOMAIN todo' : todo'[i].rows # {}
                     /\ \A i \in DOMAIN todo' : \A r \in Tokens(todo[i].cond)' : r \in todo'[i].rows \/ bal'[r] = 0
                     /\ \A i, j \in DOMAIN todo' : i # j => todo'[i].rows \intersect todo'[j].rows = {}
  BY DEF Planned
<1>0. bal \in [Row -> Nat] /\ out \in Seq(Row) /\ \A r \in Row : bal'[r] = bal[r] \/ bal'[r] = 0
  BY BalancesFall DEF PagingInv, Paged, ControlInv
<1>1. \A c : Tokens(c) \subseteq Row
  BY <1>0 DEF Tokens, ToSet
<1>6. ASSUME out' = out PROVE \A i : Tokens(todo[i].cond)' = Tokens(todo'[i].cond)
  BY <1>6 DEF Tokens
<1>2. CASE Dispose
  <2>1. InBatch /\ bal' = bal /\ todo' = Rest
    BY <1>2, Disposed DEF Dispose
  <2>2. Rest # <<>>
    BY <1>2, Disposed DEF InBatch
  <2>3. out' = out
    BY <1>2, <2>2, Disposed DEF pvars, call
  <2>4. PICK b \in 1..Len(todo) : \A i \in DOMAIN Rest : i \in Nat /\ b + i \in DOMAIN todo /\ Rest[i] = todo[b + i]
    <3>1. PICK b \in 1..Len(todo) :
            /\ Len(todo) \in Nat /\ DOMAIN Rest = 1..(Len(todo) - b)
            /\ \A i \in DOMAIN Rest : b + i \in DOMAIN todo /\ Rest[i] = todo[b + i]
      BY <2>1, BatchParts
    <3>. QED
      BY <3>1
  <2>5. \A i, j \in DOMAIN Rest : i # j => b + i # b + j
    BY <2>4
  <2>. QED
    BY <1>6, <2>1, <2>3, <2>4, <2>5 DEF Planned
<1>3. CASE PlanPass
  <2>1. out' = out /\ bal' = bal /\ todo' = Truncate(Calls) /\ Calls # <<>>
    BY <1>3 DEF PlanPass, pvars, call, chain
  <2>2. max \in Nat /\ Total \in Nat /\ (max > 0 => Total < max)
    BY <1>3 DEF PlanPass, ControlInv, CapInv, Total
  <2>3. PICK m \in 1..Len(Calls) :
          DOMAIN todo' = 1..m /\ \A i \in 1..m : i \in DOMAIN Calls /\ todo'[i] = Calls[i]
    BY <1>0, <2>1, <2>2, PlannedPart
  <2>4. \A i \in DOMAIN todo' : /\ todo'[i].cond \in Condition /\ Kept(todo'[i].cond)
                               /\ todo'[i] = Call(todo'[i].cond)
    BY <1>0, <2>3, PlannedCalls
  <2>5. \A i, j \in DOMAIN todo' : todo'[i].cond = todo'[j].cond => i = j
    BY <1>0, <2>3, PlannedCalls
  <2>6. ASSUME NEW i \in DOMAIN todo'
        PROVE  /\ todo'[i].rows # {} /\ \A r \in todo'[i].rows : CondOf[r] = todo'[i].cond
               /\ \A r \in Tokens(todo'[i].cond) : r \in todo'[i].rows \/ bal[r] = 0
    BY <1>0, <2>4, KeptCall DEF Pays
  <2>. QED
    BY <1>6, <2>1, <2>5, <2>6
<1>4. CASE RedeemAll \/ Land \/ Apart \/ Submit \/ Wait \/ UNCHANGED vars
  <2>1. InBatch /\ out' = out /\ todo' = todo
    BY <1>4, PassHolds
  <2>2. ASSUME NEW i \in DOMAIN todo, NEW r \in Tokens(todo[i].cond) PROVE r \in todo[i].rows \/ bal'[r] = 0
    <3>1. r \in Row /\ (r \in todo[i].rows \/ bal[r] = 0)
      BY <1>1, <2>1 DEF Planned
    <3>. QED
      BY <1>0, <3>1
  <2>. QED
    BY <1>6, <2>1, <2>2 DEF Planned
<1>. QED
  BY <1>2, <1>3, <1>4, Steps

\* A batch in flight has not landed: it is neither nothing nor foreign.
LEMMA BatchFlies ==
  ASSUME ControlInv, Planned, InBatch
  PROVE  Batch # <<>> /\ Batch # Foreign
<1>1. PICK b \in 1..Len(todo) : Len(todo) \in Nat /\ Len(Batch) = b /\ DOMAIN todo = 1..Len(todo) /\ \A i \in 1..b : Batch[i] = todo[i]
  BY BatchParts
<1>2. Len(Batch) # 0 /\ Batch[1] = todo[1] /\ 1 \in DOMAIN todo
  BY <1>1
<1>3. Batch[1].rows # {}
  BY <1>2 DEF Planned
<1>. QED
  BY <1>2, <1>3 DEF Foreign

\* Once all that is left pays, the next batch and those after it do.
LEMMA AllPay ==
  ASSUME ControlInv', InBatch', \A i \in DOMAIN todo' : Pays(bal', todo'[i])
  PROVE  Fresh' /\ Later'
<1>1. todo' \in Seq(RCall) /\ todo' # <<>>
  BY DEF ControlInv
<1>2. Len(Batch') \in 1..Len(todo') /\ Len(todo') \in Nat /\ DOMAIN todo' = 1..Len(todo')
  BY <1>1, HeadSize DEF Batch
<1>3. 1..Len(Batch') \subseteq DOMAIN todo'
  BY <1>2
<1>. QED
  BY <1>3 DEF Fresh, Later

\* What is said of a batch depends on the balances and on todo alone.
LEMMA SameBatch ==
  ASSUME bal' = bal, todo' = todo
  PROVE  Batch' = Batch /\ (Fresh' <=> Fresh) /\ (Spent' <=> Spent) /\ (Later' <=> Later)
BY DEF Batch, Fresh, Spent, Later, Pays

\* What landing the batch in flight does to it and to those after it.
LEMMA LandBatch ==
  ASSUME PagingInv, ControlInv, Planned, InBatch, inflight = Batch, Land, Later, Fresh \/ Spent
  PROVE  Landed' /\ Spent' /\ Later' /\ (reverted' => reverted \/ ~Fresh)
<1>1. PICK b \in 1..Len(todo) :
        /\ Len(todo) \in Nat /\ DOMAIN todo = 1..Len(todo)
        /\ Len(Batch) = b /\ DOMAIN Batch = 1..b /\ \A i \in 1..b : Batch[i] = todo[i]
  BY BatchParts
<1>2. todo' = todo /\ inflight' = <<>> /\ Batch' = Batch /\ bal \in [Row -> Nat]
  BY DEF Land, batch, Batch, ControlInv
<1>3. ~Landed /\ inflight # Foreign
  BY BatchFlies DEF Landed
<1>4. Landed'
  BY <1>2 DEF Landed
<1>5. CASE Fresh
  <2>1. \A i \in DOMAIN inflight : Pays(bal, inflight[i])
    BY <1>1, <1>5 DEF Fresh
  <2>2. bal' = [r \in Row |-> IF r \in Burns(inflight) THEN 0 ELSE bal[r]] /\ reverted' = reverted
    BY <1>3, <2>1 DEF Land
  <2>3. \A i \in 1..b : todo[i].rows \subseteq Burns(inflight) /\ todo[i].rows \subseteq Row
    <3>1. \A i \in 1..b : todo[i] \in RCall
      BY <1>1 DEF ControlInv
    <3>. QED
      BY <1>1, <3>1 DEF Burns, RCall
  <2>4. Spent'
    BY <1>1, <1>2, <2>2, <2>3 DEF Spent
  <2>5. ASSUME NEW i \in DOMAIN todo, i > b PROVE Pays(bal', todo[i])
    <3>1. PICK r \in todo[i].rows : bal[r] > 0
      BY <1>1, <2>5 DEF Later, Pays
    <3>2. r \in Row
      <4>1. todo[i] \in RCall
        BY <1>1 DEF ControlInv
      <4>. QED
        BY <4>1 DEF RCall
    <3>3. \A j \in 1..b : j \in DOMAIN todo /\ j # i
      BY <1>1, <2>5
    <3>4. r \notin Burns(inflight)
      BY <1>1, <3>3 DEF Burns, Planned
    <3>. QED
      BY <2>2, <3>1, <3>2, <3>4 DEF Pays
  <2>. QED
    BY <1>1, <1>2, <1>4, <2>2, <2>4, <2>5 DEF Later
<1>6. CASE ~Fresh
  <2>1. Spent
    BY <1>6
  <2>2. ~Pays(bal, inflight[1]) /\ 1 \in DOMAIN inflight
    <3>1. 1 \in 1..b
      BY <1>1
    <3>. QED
      BY <1>1, <2>1, <3>1 DEF Spent, Pays
  <2>3. bal' = bal
    BY <1>3, <2>2 DEF Land
  <2>. QED
    BY <1>2, <1>4, <1>6, <2>1, <2>3, SameBatch
<1>. QED
  BY <1>5, <1>6

\* Every step keeps what is known of the batches.
LEMMA BatchNext ==
  ASSUME PagingInv, ControlInv, CapInv, Planned, BatchInv, [Next]_vars
  PROVE  BatchInv'
<1>0. /\ ControlInv' /\ Planned' /\ bal \in [Row -> Nat]
      /\ \A r \in Row : bal'[r] = bal[r] \/ bal'[r] = 0
  BY ControlNext, PlannedNext, BalancesFall DEF ControlInv
<1>1. (lost => lost') /\ (skipped => skipped') /\ {lost, skipped, lost', skipped'} \subseteq BOOLEAN
  <2>1. (lost => lost') /\ (skipped => skipped')
    <3>1. CASE RedeemAll \/ PlanPass \/ Land
      BY <3>1 DEF RedeemAll, PlanPass, Land, batch
    <3>2. CASE Apart
      BY <3>2 DEF Apart
    <3>4. CASE UNCHANGED vars
      BY <3>4 DEF vars, batch
    <3>3. CASE Submit \/ Wait \/ Dispose
      BY <3>3 DEF Submit, Wait, Dispose
    <3>. QED
      BY <3>1, <3>2, <3>3, <3>4, Steps
  <2>. QED
    BY <1>0, <2>1 DEF ControlInv
<1>2. CASE Dispose
  <2>1. InBatch /\ bal' = bal /\ reverted' = reverted /\ todo' = Rest
    BY <1>2, Disposed DEF Dispose
  <2>2. ASSUME ~(lost' /\ skipped')
        PROVE  /\ Landed' /\ Later
               /\ ~skipped' => pc = "settle" /\ Spent /\ claimed' = claimed \union UNION {Tokens(Batch[i].cond) : i \in DOMAIN Batch}
    <3>1. CASE pc = "settle"
      <4>1. Landed /\ Counted /\ inflight' = inflight
        BY <1>2, <3>1 DEF Dispose
      <4>2. Spent /\ Later
        BY <1>1, <2>1, <2>2, <3>1, <4>1, BatchFlies DEF BatchInv, Landed
      <4>. QED
        BY <3>1, <4>1, <4>2 DEF Landed, Counted
    <3>2. CASE pc = "submit"
      <4>1. skipped' /\ ~lost' /\ ~lost
        BY <1>1, <1>2, <2>2, <3>2 DEF Dispose
      <4>2. inflight' = inflight /\ Landed /\ Later
        BY <1>2, <2>1, <3>2, <4>1 DEF Dispose, BatchInv
      <4>. QED
        BY <4>1, <4>2 DEF Landed
    <3>. QED
      BY <1>2, <3>1, <3>2 DEF Dispose
  <2>3. PICK b \in 1..Len(todo) :
           /\ Len(todo) \in Nat /\ DOMAIN todo = 1..Len(todo)
           /\ Len(Batch) = b /\ DOMAIN Batch = 1..b /\ \A i \in 1..b : Batch[i] = todo[i]
           /\ DOMAIN Rest = 1..(Len(todo) - b)
           /\ \A i \in DOMAIN Rest : b + i \in DOMAIN todo /\ Rest[i] = todo[b + i]
    BY <2>1, BatchParts
  <2>4. reverted' => lost'
    BY <1>1, <2>1 DEF BatchInv
  <2>5. claimed' \subseteq Row /\ (~skipped' => \A r \in claimed' : bal'[r] = 0)
    <3>1. claimed \subseteq Row /\ \A c : Tokens(c) \subseteq Row
      BY DEF BatchInv, Tokens, PagingInv, Paged, ToSet
    <3>2. claimed' \subseteq Row
      BY <1>2, <3>1 DEF Dispose, Counted
    <3>3. ASSUME ~skipped', NEW r \in claimed' PROVE bal'[r] = 0
      <4>1. Spent /\ claimed' = claimed \union UNION {Tokens(Batch[i].cond) : i \in DOMAIN Batch} /\ ~skipped
        BY <1>1, <2>2, <3>3
      <4>2. CASE r \in claimed
        BY <2>1, <4>1, <4>2 DEF BatchInv
      <4>3. CASE r \notin claimed
        <5>1. PICK i \in 1..b : r \in Tokens(todo[i].cond) /\ i \in DOMAIN todo
          BY <2>3, <3>3, <4>1, <4>3
        <5>2. r \in todo[i].rows \/ bal[r] = 0
          BY <2>1, <5>1 DEF Planned
        <5>. QED
          BY <2>1, <2>3, <4>1, <5>1, <5>2 DEF Spent
      <4>. QED
        BY <4>2, <4>3
    <3>. QED
      BY <3>2, <3>3
  <2>6. ASSUME ~(lost' /\ skipped'), InBatch' PROVE pc' = "submit" /\ Fresh' /\ Later'
    <3>1. pc' = "submit"
      BY <1>2, <2>6, Disposed DEF InBatch
    <3>2. \A i \in DOMAIN todo' : Pays(bal', todo'[i])
      <4>1. \A i \in DOMAIN Rest : i \in 1..(Len(todo) - b) /\ b + i > b
        BY <2>3
      <4>. QED
        BY <2>1, <2>2, <2>3, <2>6, <4>1 DEF Later
    <3>. QED
      BY <1>0, <2>6, <3>1, <3>2, AllPay
  <2>. QED
    BY <2>2, <2>4, <2>5, <2>6 DEF BatchInv, InBatch
<1>3. CASE PlanPass
  <2>1. bal' = bal /\ inflight' = inflight /\ out' = out /\ UNCHANGED <<lost, skipped, claimed, reverted>>
        /\ ~InBatch /\ pc' = "submit" /\ InBatch' /\ Calls # <<>> /\ todo' = Truncate(Calls)
    BY <1>3 DEF PlanPass, pvars, call, chain, InBatch
  <2>2. max \in Nat /\ Total \in Nat /\ (max > 0 => Total < max) /\ out \in Seq(Row)
    BY <1>3 DEF PlanPass, ControlInv, CapInv, Total, PagingInv, Paged
  <2>3. PICK m \in 1..Len(Calls) :
          DOMAIN todo' = 1..m /\ \A i \in 1..m : i \in DOMAIN Calls /\ todo'[i] = Calls[i]
    BY <1>0, <2>1, <2>2, PlannedPart
  <2>4. \A i \in DOMAIN todo' : Pays(bal', todo'[i])
    <3>1. ASSUME NEW i \in DOMAIN todo' PROVE Pays(bal, todo'[i])
      <4>1. todo'[i].cond \in Condition /\ Kept(todo'[i].cond) /\ todo'[i] = Call(todo'[i].cond)
        BY <1>0, <2>2, <2>3, PlannedCalls
      <4>. QED
        BY <1>0, <2>2, <4>1, KeptCall
    <3>. QED
      BY <2>1, <3>1
  <2>5. Fresh' /\ Later'
    BY <1>0, <2>1, <2>4, AllPay
  <2>. QED
    BY <2>1, <2>5 DEF BatchInv, InBatch, Landed
<1>4. CASE Land
  <2>1. UNCHANGED <<pc, lost, skipped, claimed, todo>> /\ (InBatch' <=> InBatch) /\ inflight' = <<>> /\ Batch' = Batch
    BY <1>4 DEF Land, batch, InBatch, Batch
  <2>2. claimed' \subseteq Row /\ (~skipped' => \A r \in claimed' : bal'[r] = 0)
    BY <1>0, <2>1 DEF BatchInv
  <2>3. Landed'
    BY <2>1 DEF Landed
  <2>4. CASE lost /\ skipped
    BY <2>1, <2>2, <2>4 DEF BatchInv
  <2>5. CASE ~(lost /\ skipped) /\ Landed
    <3>1. bal' = bal /\ reverted' = reverted
      BY <1>4, <2>5 DEF Land, Landed, Busy
    <3>2. (Fresh' <=> Fresh) /\ (Spent' <=> Spent) /\ (Later' <=> Later)
      BY <2>1, <3>1, SameBatch
    <3>3. InBatch => inflight # Batch
      BY <2>5, BatchFlies DEF Landed
    <3>4. InBatch /\ pc # "settle" => Fresh \/ (lost /\ Spent)
      BY <2>5 DEF BatchInv
    <3>5. pc = "settle" => Spent
      BY <2>5, <3>3 DEF BatchInv, InBatch
    <3>6. InBatch => Later
      BY <2>5 DEF BatchInv
    <3>7. (reverted' => lost')
      BY <2>1, <3>1 DEF BatchInv
    <3>8. /\ InBatch' => Later'
          /\ InBatch' /\ pc' # "settle" => Fresh' \/ (lost' /\ Spent')
          /\ pc' = "settle" => Spent'
      BY <2>1, <3>2, <3>4, <3>5, <3>6
    <3>. QED
      BY <2>2, <2>3, <3>7, <3>8 DEF BatchInv
  <2>6. CASE ~(lost /\ skipped) /\ ~Landed
    <3>1. InBatch /\ inflight = Batch /\ Later /\ (Fresh \/ (lost /\ Spent)) /\ (pc = "settle" \/ lost)
      BY <2>6 DEF BatchInv
    <3>2. Spent' /\ Later' /\ (reverted' => reverted \/ ~Fresh)
      BY <1>4, <3>1, LandBatch
    <3>3. reverted' => lost'
      BY <2>1, <3>1, <3>2 DEF BatchInv
    <3>. QED
      BY <2>1, <2>2, <2>3, <3>1, <3>2, <3>3 DEF BatchInv
  <2>. QED
    BY <2>4, <2>5, <2>6
<1>5. CASE Submit
  <2>1. /\ pc = "submit" /\ InBatch /\ InBatch' /\ inflight = <<>> /\ inflight' = Batch /\ bal' = bal /\ todo' = todo
        /\ UNCHANGED <<reverted, skipped, claimed>>
        /\ \/ pc' = "settle" /\ lost' = lost
           \/ pc' = "retrywait" /\ lost' = TRUE
    BY <1>5 DEF Submit, Accept, Busy, InBatch
  <2>2. Batch' = Batch /\ (Fresh' <=> Fresh) /\ (Spent' <=> Spent) /\ (Later' <=> Later)
    BY <2>1, SameBatch
  <2>3. ~(lost /\ skipped) => Later /\ (Fresh \/ (lost /\ Spent))
    BY <2>1 DEF BatchInv
  <2>4. claimed' \subseteq Row /\ (reverted' => lost') /\ (~skipped' => \A r \in claimed' : bal'[r] = 0)
    BY <2>1 DEF BatchInv
  <2>. QED
    BY <1>1, <2>1, <2>2, <2>3, <2>4 DEF BatchInv
<1>6. CASE RedeemAll
  BY <1>6 DEF RedeemAll, NewPass, BatchInv, InBatch, chain, Landed
<1>7. CASE Apart \/ Wait \/ UNCHANGED vars
  <2>1. /\ UNCHANGED <<bal, reverted, todo, lost, skipped, claimed>>
        /\ inflight' = inflight \/ (inflight = <<>> /\ inflight' = Foreign)
    BY <1>7 DEF Apart, Wait, vars, chain, batch, Others, Accept, Busy, Forget, Resolve, ListAll, PassFails,
                NothingListed, NothingHeld
  <2>2. Batch' = Batch /\ (Fresh' <=> Fresh) /\ (Spent' <=> Spent) /\ (Later' <=> Later)
    BY <2>1, SameBatch
  <2>3. InBatch' => InBatch
    BY <1>7, PassHolds
  <2>4. InBatch => InBatch' /\ (pc' = "settle" <=> pc = "settle")
    <3>1. ASSUME InBatch PROVE ~Page /\ ~ListAll /\ ~PassFails /\ ~NothingListed /\ ~NothingHeld
      BY <3>1 DEF InBatch, ControlInv, Page, AllPage, RedeemablePage, PageFails, Fetching, ListAll, PassFails,
                  NothingListed, NothingHeld
    <3>. QED
      BY <1>7, <3>1 DEF Apart, Wait, vars, Others, Forget, Resolve, InBatch
  <2>5. Landed => Landed'
    BY <2>1 DEF Landed
  <2>6. InBatch /\ inflight = Batch => inflight' = Batch
    BY <2>1, BatchFlies
  <2>7. claimed' \subseteq Row /\ (reverted' => lost') /\ (~skipped' => \A r \in claimed' : bal'[r] = 0)
    BY <2>1 DEF BatchInv
  <2>8. ASSUME ~(lost /\ skipped)
        PROVE  /\ ~InBatch => Landed
               /\ InBatch => Later
               /\ InBatch /\ pc # "settle" =>
                    \/ Fresh /\ Landed
                    \/ lost /\ (Landed \/ inflight = Batch) /\ (Fresh \/ Spent)
               /\ InBatch /\ pc = "settle" =>
                    \/ Fresh /\ inflight = Batch
                    \/ Spent /\ (Landed \/ (lost /\ inflight = Batch))
    BY <2>8 DEF BatchInv
  <2>9. pc' = "settle" => InBatch'
    BY DEF InBatch
  <2>10. ASSUME ~(lost' /\ skipped')
        PROVE  /\ ~InBatch' => Landed'
               /\ InBatch' => Later'
               /\ InBatch' /\ pc' # "settle" =>
                    \/ Fresh' /\ Landed'
                    \/ lost' /\ (Landed' \/ inflight' = Batch') /\ (Fresh' \/ Spent')
               /\ InBatch' /\ pc' = "settle" =>
                    \/ Fresh' /\ inflight' = Batch'
                    \/ Spent' /\ (Landed' \/ (lost' /\ inflight' = Batch'))
    <3>1. ~(lost /\ skipped) /\ lost' = lost
      BY <2>1, <2>10
    <3>. QED
      BY <2>2, <2>3, <2>4, <2>5, <2>6, <2>8, <3>1
  <2>. QED
    BY <2>7, <2>9, <2>10 DEF BatchInv
<1>. QED
  BY <1>2, <1>3, <1>4, <1>5, <1>6, <1>7, Steps

---------------------------------------------------------------------------
(* What a drained wallet is left with.                                     *)

\* While the rows of a pass stay what they are, what a condition is worth
\* only falls.
LEMMA HeldFalls ==
  ASSUME ControlInv, PagingInv, [Next]_vars, out' = out, NEW c, Kept(c)'
  PROVE  Kept(c)
<1>1. bal \in [Row -> Nat] /\ bal' \in [Row -> Nat] /\ out \in Seq(Row)
  BY BalancesFall DEF ControlInv, PagingInv, Paged
<1>2. \A r \in Row : bal'[r] <= bal[r]
  BY <1>1, BalancesFall
<1>3. ASSUME NEW side
      PROVE  TokenHeld(c, side) \in Nat /\ TokenHeld(c, side)' \in Nat
             /\ TokenHeld(c, side)' <= TokenHeld(c, side)
  <2> DEFINE token == {r \in Tokens(c) : SideOf[r] = side}
             t == CHOOSE r \in token : TRUE
  <2>1. Tokens(c) \subseteq Row /\ Tokens(c)' = Tokens(c)
    BY <1>1, HeldSides DEF Tokens
  <2>2. TokenHeld(c, side) = (IF token = {} THEN 0 ELSE bal[t])
    BY DEF TokenHeld
  <2>3. TokenHeld(c, side)' = (IF token = {} THEN 0 ELSE bal'[t])
    BY <2>1 DEF TokenHeld
  <2>4. token # {} => t \in Row
    BY <2>1
  <2>. HIDE DEF token, t
  <2>. QED
    BY <1>1, <1>2, <2>2, <2>3, <2>4
<1>4. Held(c) \in Nat /\ Held(c)' \in Nat /\ Held(c)' <= Held(c)
  <2>1. /\ Held(c) = TokenHeld(c, "yes") + TokenHeld(c, "no")
        /\ Held(c)' = TokenHeld(c, "yes")' + TokenHeld(c, "no")'
    BY DEF Held
  <2>. QED
    BY <1>3, <2>1
<1>5. MinShares \in Nat
  BY RedeemAssumption
<1>. QED
  BY <1>4, <1>5 DEF Kept

\* Every condition of the page set still worth redeeming is to be redeemed yet.
Outstanding == \A r \in ToSet(out) : Kept(CondOf[r]) => \E i \in DOMAIN todo : todo[i].cond = CondOf[r]
NothingLeft == \A r \in ToSet(out) : ~Kept(CondOf[r])

\* A pass that was not cut off redeems all that is worth it; a call that ends
\* as drained has.
DrainInv ==
  /\ ~reverted /\ pc = "settle" => inflight = Batch \/ Spent
  /\ ~reverted /\ bad = 0 /\ InBatch => (max > 0 /\ Total + ok + Len(todo) = max) \/ Outstanding
  /\ result = "drained" =>
       /\ pc = "idle" /\ fetch = "redeemableDone" /\ ~hitCap
       /\ bad = 0 /\ ~reverted => NothingLeft

\* Disposing of a batch that was spent takes its conditions off the list.
LEMMA BatchIsGone ==
  ASSUME PagingInv, ControlInv, Planned, InBatch, Spent, Outstanding,
         bal' = bal, out' = out, todo' = Rest
  PROVE  Outstanding'
<1>1. PICK b \in 1..Len(todo) :
        /\ Len(todo) \in Nat /\ DOMAIN todo = 1..Len(todo) /\ Len(Batch) = b
        /\ DOMAIN Rest = 1..(Len(todo) - b)
        /\ \A i \in DOMAIN Rest : b + i \in DOMAIN todo /\ Rest[i] = todo[b + i]
  BY BatchParts
<1>2. ASSUME NEW r \in ToSet(out), Kept(CondOf[r])
      PROVE  \E i \in DOMAIN Rest : Rest[i].cond = CondOf[r]
  <2>1. PICK i \in DOMAIN todo : todo[i].cond = CondOf[r]
    BY <1>2 DEF Outstanding
  <2>2. ~(i <= b)
    <3>1. ASSUME i <= b PROVE FALSE
      <4>1. i \in 1..Len(Batch)
        BY <1>1, <3>1
      <4>2. \A q \in Tokens(todo[i].cond) : bal[q] = 0
        BY <4>1 DEF Planned, Spent
      <4>3. bal \in [Row -> Nat] /\ out \in Seq(Row)
        BY DEF ControlInv, PagingInv, Paged
      <4>4. Held(todo[i].cond) = 0
        BY <4>2, <4>3, HeldSides
      <4>. QED
        BY <1>2, <2>1, <4>4 DEF Kept
    <3>. QED
      BY <3>1
  <2>3. i - b \in DOMAIN Rest /\ b + (i - b) = i
    BY <1>1, <2>2
  <2>4. Rest[i - b] = todo[i]
    BY <1>1, <2>3
  <2>. QED
    BY <2>1, <2>3, <2>4
<1>3. \A c : Kept(c)' <=> Kept(c)
  BY DEF Kept, Held, TokenHeld, Tokens
<1>. QED
  BY <1>2, <1>3 DEF Outstanding

\* A batch redeemed in full moves from todo to the redeemed ones.
LEMMA AllCounted ==
  ASSUME NEW m \in Nat, NEW t \in Nat, NEW o \in Nat, NEW n \in Nat, NEW b \in Nat, NEW n2,
         t + o + n = m, n2 = n - b
  PROVE  t + (o + b) + n2 = m
OBVIOUS

\* A list of calls not disposed of is still outstanding after a step that
\* leaves the rows and the calls alone.
LEMMA StaysOutstanding ==
  ASSUME PagingInv, ControlInv, [Next]_vars, out' = out
  PROVE  /\ Outstanding /\ todo' = todo => Outstanding'
         /\ NothingLeft => NothingLeft'
<1>1. \A r \in ToSet(out) : Kept(CondOf[r])' => Kept(CondOf[r])
  <2>1. ASSUME NEW r \in ToSet(out), Kept(CondOf[r])' PROVE Kept(CondOf[r])
    <3>1. \A c : Kept(c)' => Kept(c)
      BY HeldFalls
    <3>. QED
      BY <2>1, <3>1
  <2>. QED
    BY <2>1
<1>. QED
  BY <1>1 DEF Outstanding, NothingLeft

\* Disposing of a batch keeps the rest outstanding, and nothing when none
\* is left.
LEMMA DrainDisposed ==
  ASSUME PagingInv, ControlInv, CapInv, Planned, BatchInv, DrainInv, Dispose
  PROVE  DrainInv'
<1>1. InBatch /\ bal' = bal /\ reverted' = reverted /\ max' = max /\ todo' = Rest /\ result # "drained"
  BY Disposed DEF Dispose, DrainInv, InBatch
<1>2. PICK b \in 1..Len(todo) : Len(todo) \in Nat /\ Len(Batch) = b /\ Len(Rest) = Len(todo) - b
  BY <1>1, BatchParts
<1>3. /\ {ok, bad, max, ok', bad', b} \subseteq Nat /\ Total \in Nat
  BY <1>2, Disposed DEF ControlInv, Total
<1>4. ASSUME ~reverted', bad' = 0
      PROVE  /\ bad = 0 /\ pc = "settle" /\ ok' = ok + b
             /\ (max > 0 /\ Total + ok' + Len(Rest) = max) \/ (out' = out => Outstanding')
  <2>1. bad = 0 /\ pc = "settle" /\ ok' = ok + b /\ Landed
    BY <1>2, <1>3, <1>4 DEF Dispose, Counted
  <2>2. inflight # Batch /\ Spent
    BY <1>1, <1>4, <2>1, BatchFlies DEF Landed, DrainInv
  <2>3. CASE Outstanding
    BY <1>1, <2>1, <2>2, <2>3, BatchIsGone
  <2>4. CASE max > 0 /\ Total + ok + Len(todo) = max
    <3>1. Total + (ok + b) + Len(Rest) = max
      <4>1. ok \in Nat /\ b \in Nat /\ max \in Nat /\ Len(todo) \in Nat
        BY <1>2, <1>3
      <4>2. Total \in Nat /\ Total + ok + Len(todo) = max /\ Len(Rest) = Len(todo) - b
        BY <1>2, <1>3, <2>4
      <4>. QED
        BY <4>1, <4>2, AllCounted
    <3>. QED
      BY <2>1, <2>4, <3>1
  <2>. QED
    BY <1>1, <1>4, <2>1, <2>3, <2>4 DEF DrainInv
<1>5. CASE Rest # <<>>
  <2>1. pc' = "submit" /\ out' = out /\ Total' = Total /\ result' = result
    BY <1>5, Disposed DEF pvars, call, outcome, Total
  <2>. QED
    BY <1>1, <1>4, <2>1 DEF DrainInv
<1>6. CASE Rest = <<>>
  <2>1. /\ Total' = Total + ok' + bad'
        /\ \/ pc' = "idle" /\ UNCHANGED pvars
           \/ pc' = "fetch" /\ result' = result
        /\ pc' = "idle" /\ result' = "drained" => ~hitCap /\ (max > 0 => Total' < max)
    BY <1>6, Disposed
  <2>2. ASSUME result' = "drained"
        PROVE  /\ pc' = "idle" /\ fetch' = "redeemableDone" /\ ~hitCap'
               /\ bad' = 0 /\ ~reverted' => NothingLeft'
    <3>1. pc' = "idle" /\ fetch' = fetch /\ out' = out /\ hitCap' = hitCap /\ ~hitCap /\ (max > 0 => Total' < max)
      BY <1>1, <2>1, <2>2 DEF pvars, call
    <3>2. ASSUME bad' = 0, ~reverted' PROVE NothingLeft'
      <4>1. Len(Rest) = 0 /\ Total' = Total + ok'
        <5>1. Len(Rest) = 0
          BY <1>6
        <5>2. Total' = Total + ok' + 0
          BY <2>1, <3>2
        <5>. QED
          BY <1>3, <5>1, <5>2
      <4>2. ~(max > 0 /\ Total + ok' + Len(Rest) = max)
        BY <1>3, <3>1, <4>1
      <4>3. Outstanding'
        BY <1>4, <3>1, <3>2, <4>2
      <4>4. DOMAIN todo' = {}
        BY <1>1, <1>6
      <4>. QED
        BY <4>3, <4>4 DEF Outstanding, NothingLeft
    <3>3. fetch = "redeemableDone"
      BY <1>1 DEF ControlInv
    <3>. QED
      BY <3>1, <3>2, <3>3
  <2>3. ~InBatch' /\ pc' # "settle"
    BY <2>1 DEF InBatch
  <2>. QED
    BY <2>2, <2>3 DEF DrainInv
<1>. QED
  BY <1>5, <1>6

\* Every step keeps what is outstanding, and what a drained call left.
LEMMA DrainNext ==
  ASSUME PagingInv, ControlInv, CapInv, Planned, BatchInv, DrainInv, [Next]_vars
  PROVE  DrainInv'
<1>0. reverted => reverted'
  <2>1. CASE Land
    BY <2>1 DEF Land, ControlInv
  <2>2. CASE ~Land
    BY <2>2, Steps DEF RedeemAll, PlanPass, Apart, Submit, Wait, Dispose, vars, chain
  <2>. QED
    BY <2>1, <2>2
<1>1. CASE Dispose
  BY <1>1, DrainDisposed
<1>2. CASE RedeemAll
  BY <1>2 DEF RedeemAll, NewPass, DrainInv, InBatch
<1>3. CASE PlanPass
  <2>1. pc' = "submit" /\ out' = out /\ bal' = bal /\ todo' = Truncate(Calls) /\ ok' = 0 /\ max' = max
        /\ Total' = Total /\ result' = result /\ result # "drained" /\ pc = "fetch" /\ Calls # <<>>
    BY <1>3 DEF PlanPass, pvars, call, chain, outcome, Total, DrainInv
  <2>2. max \in Nat /\ Total \in Nat /\ (max > 0 => Total < max) /\ out \in Seq(Row) /\ bal \in [Row -> Nat]
    BY <2>1 DEF ControlInv, CapInv, Total, PagingInv, Paged
  <2>3. PICK m \in 1..Len(Calls) :
          /\ Len(Truncate(Calls)) = m /\ DOMAIN Truncate(Calls) = 1..m
          /\ \A i \in 1..m : i \in DOMAIN Calls /\ Truncate(Calls)[i] = Calls[i]
          /\ m = Len(Calls) \/ (max > 0 /\ m = max - Total)
    BY <2>1, <2>2, PlannedPart
  <2>4. CASE m = Len(Calls)
    <3>1. DOMAIN Calls = 1..m
      BY <2>2, <2>4, PlannedCalls
    <3>2. \A r \in ToSet(out) : Kept(CondOf[r]) => \E i \in DOMAIN todo' : todo'[i].cond = CondOf[r]
      BY <2>1, <2>2, <2>3, <3>1, PlannedCalls
    <3>3. \A c : Kept(c)' <=> Kept(c)
      BY <2>1 DEF Kept, Held, TokenHeld, Tokens
    <3>4. Outstanding'
      BY <2>1, <3>2, <3>3 DEF Outstanding
    <3>. QED
      BY <2>1, <3>4 DEF DrainInv
  <2>5. CASE max > 0 /\ m = max - Total
    <3>1. max' > 0 /\ Total' + ok' + Len(todo') = max'
      BY <2>1, <2>2, <2>3, <2>5
    <3>. QED
      BY <2>1, <3>1 DEF DrainInv
  <2>. QED
    BY <2>3, <2>4, <2>5
<1>4. CASE Land \/ Submit \/ Wait \/ UNCHANGED vars
  <2>1. /\ UNCHANGED <<out, fetch, hitCap, max, ok, bad, todo, Total, result>>
        /\ pc' = pc \/ (InBatch /\ InBatch')
    BY <1>4 DEF Land, Submit, Wait, vars, pvars, call, batch, outcome, InBatch, Total
  <2>2. (Outstanding => Outstanding') /\ (NothingLeft => NothingLeft')
    BY <2>1, StaysOutstanding
  <2>3. (InBatch' <=> InBatch)
    BY <2>1 DEF InBatch
  <2>4. ~reverted' /\ pc' = "settle" => inflight' = Batch' \/ Spent'
    <3>1. CASE Land
      <4>1. pc' = pc /\ Batch' = Batch
        BY <3>1, <2>1 DEF Land, Batch
      <4>2. CASE inflight # Batch /\ ~reverted' /\ pc' = "settle"
        <5>1. Spent /\ bal \in [Row -> Nat] /\ \A r \in Row : bal'[r] = bal[r] \/ bal'[r] = 0
          BY <1>0, <4>1, <4>2, BalancesFall DEF DrainInv, ControlInv
        <5>2. \A i \in 1..Len(Batch) : todo[i].rows \subseteq Row
          <6>1. 1..Len(Batch) \subseteq DOMAIN todo /\ \A i \in DOMAIN todo : todo[i] \in RCall
            <7>1. PICK b \in 1..Len(todo) : Len(todo) \in Nat /\ DOMAIN todo = 1..Len(todo) /\ Len(Batch) = b
              BY <4>1, <4>2, BatchParts DEF InBatch
            <7>. QED
              BY <7>1 DEF ControlInv
          <6>. QED
            BY <6>1 DEF RCall
        <5>. QED
          BY <2>1, <4>1, <5>1, <5>2 DEF Spent
      <4>3. CASE inflight = Batch /\ ~reverted' /\ pc' = "settle"
        <5>1. InBatch /\ ~reverted
          BY <1>0, <4>1, <4>3 DEF InBatch
        <5>2. inflight # Foreign
          BY <4>3, <5>1, BatchFlies
        <5>3. bal' = [r \in Row |-> IF r \in Burns(inflight) THEN 0 ELSE bal[r]]
          BY <3>1, <4>3, <5>2 DEF Land
        <5>4. PICK b \in 1..Len(todo) : /\ Len(todo) \in Nat /\ DOMAIN todo = 1..Len(todo)
                                        /\ Len(Batch) = b /\ DOMAIN Batch = 1..b
                                        /\ \A i \in 1..b : Batch[i] = todo[i]
          BY <5>1, BatchParts
        <5>5. \A i \in 1..b : todo[i].rows \subseteq Burns(inflight) /\ todo[i].rows \subseteq Row
          <6>1. \A i \in 1..b : todo[i] \in RCall
            BY <5>4 DEF ControlInv
          <6>. QED
            BY <4>3, <5>4, <6>1 DEF Burns, RCall
        <5>. QED
          BY <2>1, <4>1, <5>3, <5>4, <5>5 DEF Spent
      <4>. QED
        BY <4>2, <4>3
    <3>2. CASE Submit
      BY <3>2, <2>1 DEF Submit, Accept, Batch
    <3>3. CASE Wait
      BY <3>3 DEF Wait
    <3>4. CASE UNCHANGED vars
      <4>1. UNCHANGED <<bal, inflight, reverted, pc, todo>>
        BY <3>4 DEF vars, chain, batch
      <4>2. Batch' = Batch /\ (Spent' <=> Spent)
        BY <4>1, SameBatch
      <4>. QED
        BY <4>1, <4>2 DEF DrainInv
    <3>. QED
      BY <1>4, <3>1, <3>2, <3>3, <3>4
  <2>5. ~reverted' /\ bad' = 0 /\ InBatch' => (max' > 0 /\ Total' + ok' + Len(todo') = max') \/ Outstanding'
    BY <1>0, <2>1, <2>2, <2>3 DEF DrainInv
  <2>6. result' = "drained" =>
          /\ pc' = "idle" /\ fetch' = "redeemableDone" /\ ~hitCap'
          /\ bad' = 0 /\ ~reverted' => NothingLeft'
    BY <1>0, <2>1, <2>2 DEF DrainInv, InBatch
  <2>. QED
    BY <2>4, <2>5, <2>6 DEF DrainInv
<1>5. CASE Apart
  <2>0. UNCHANGED <<bal, reverted, max, todo, ok, bad, Total>>
    BY <1>5 DEF Apart, Total
  <2>1. CASE ListAll \/ PassFails \/ NothingListed \/ NothingHeld
    <3>1. pc' # "settle" /\ ~InBatch' /\ result' # "drained"
      BY <2>1 DEF ListAll, PassFails, NothingListed, NothingHeld, Stop, InBatch
    <3>. QED
      BY <3>1 DEF DrainInv
  <2>2. CASE Page \/ Others \/ Forget \/ Resolve
    <3>1. pc' = pc /\ result' = result /\ (inflight' = inflight \/ Accept(Foreign))
      BY <2>2 DEF Page, Others, Forget, Resolve, chain, outcome
    <3>2. CASE InBatch \/ result = "drained"
      <4>1. fetch = "redeemableDone"
        BY <3>2 DEF DrainInv, ControlInv
      <4>2. out' = out /\ fetch' = fetch /\ hitCap' = hitCap
        BY <2>2, <4>1 DEF Page, AllPage, RedeemablePage, PageFails, Fetching, Others, Forget, Resolve,
                          Delist, Enlist, pvars, call
      <4>3. (Outstanding => Outstanding') /\ (NothingLeft => NothingLeft')
        BY <2>0, <4>2, StaysOutstanding
      <4>4. Batch' = Batch /\ (Spent' <=> Spent)
        BY <2>0, SameBatch
      <4>5. ~reverted' /\ pc' = "settle" => inflight' = Batch' \/ Spent'
        <5>1. pc' = "settle" => InBatch
          BY <3>1 DEF InBatch
        <5>2. InBatch /\ inflight = Batch => inflight' = inflight
          BY <3>1, BatchFlies DEF Accept, Busy
        <5>. QED
          BY <2>0, <3>1, <4>4, <5>1, <5>2 DEF DrainInv
      <4>6. InBatch' <=> InBatch
        BY <3>1 DEF InBatch
      <4>. QED
        BY <2>0, <3>1, <4>2, <4>3, <4>5, <4>6 DEF DrainInv
    <3>3. CASE ~InBatch /\ result # "drained"
      BY <3>1, <3>3 DEF DrainInv, InBatch
    <3>. QED
      BY <3>2, <3>3
  <2>. QED
    BY <1>5, <2>1, <2>2 DEF Apart
<1>. QED
  BY <1>1, <1>2, <1>3, <1>4, <1>5, Steps

---------------------------------------------------------------------------
(* The theorems.                                                           *)

\* The inductive invariant.
RedeemInv == PagingInv /\ ControlInv /\ CapInv /\ Planned /\ BatchInv /\ DrainInv

\* It holds at first,
LEMMA RedeemInitially == Init => RedeemInv
<1>. SUFFICES ASSUME Init PROVE RedeemInv
  OBVIOUS
<1>1. PagingInv
  BY PagingInit
<1>2. ControlInv
  <2>1. bal \in [Row -> Nat] /\ max \in Nat
    BY RedeemAssumption DEF Init
  <2>2. summary \in [redeemed : Nat, failed : Nat] /\ todo \in Seq(RCall)
    BY DEF Init
  <2>. QED
    BY <2>1, <2>2 DEF Init, ControlInv, InBatch
<1>3. CapInv
  BY RedeemAssumption DEF Init, CapInv, InBatch, Total
<1>4. Planned /\ BatchInv /\ DrainInv
  BY DEF Init, Planned, BatchInv, DrainInv, InBatch, Landed
<1>. QED
  BY <1>1, <1>2, <1>3, <1>4 DEF RedeemInv

\* and after every step.
LEMMA RedeemIsInvariant == Spec => []RedeemInv
<1>1. RedeemInv /\ [Next]_vars => RedeemInv'
  BY PagingSteps, ControlNext, CapNext, PlannedNext, BatchNext, DrainNext DEF RedeemInv
<1>. QED
  BY <1>1, RedeemInitially, PTL DEF Spec

\* No row is returned twice by all_redeemable_positions, nor by all_positions
\* over an index that does not move, for any index, page limit and offset cap.
THEOREM DistinctRows == Spec => []RowsAreDistinct
<1>1. RedeemInv => RowsAreDistinct
  BY DEF RedeemInv, PagingInv
<1>. QED
  BY <1>1, RedeemIsInvariant, PTL

\* Over an index that does not move both listings return every row within the
\* offset cap, and hit_cap says exactly that the cap was reached.
THEOREM HonestHitCap == Spec => []HitCapIsHonest
<1>1. RedeemInv => HitCapIsHonest
  BY DEF RedeemInv, PagingInv
<1>. QED
  BY <1>1, RedeemIsInvariant, PTL

\* The conditions counted over all the passes of a redeem_all, redeemed and
\* failed, never exceed max_conditions.
THEOREM TotalCapped == Spec => []CapIsTotal
<1>1. RedeemInv => CapIsTotal
  <2>. SUFFICES ASSUME RedeemInv, max > 0
                PROVE Total + (IF pc \in {"idle", "fetch"} THEN 0 ELSE ok + bad) <= max
    BY DEF CapIsTotal
  <2>1. {max, ok, bad} \subseteq Nat /\ Total \in Nat /\ Len(todo) \in Nat
    BY DEF RedeemInv, ControlInv, Total
  <2>2. CASE pc \in {"idle", "fetch"}
    BY <2>1, <2>2 DEF RedeemInv, CapInv
  <2>3. CASE pc \notin {"idle", "fetch"}
    <3>1. InBatch
      BY <2>3 DEF RedeemInv, ControlInv, InBatch
    <3>2. Total + ok + bad + Len(todo) <= max
      BY <3>1 DEF RedeemInv, CapInv
    <3>. QED
      BY <2>1, <2>3, <3>2
  <2>. QED
    BY <2>2, <2>3
<1>. QED
  BY <1>1, RedeemIsInvariant, PTL

\* A batch reverts on chain only when a response was lost, whatever the index
\* still lists.
THEOREM BatchesRun == Spec => []FreshBatchesRun
<1>1. RedeemInv => FreshBatchesRun
  BY DEF RedeemInv, BatchInv, FreshBatchesRun
<1>. QED
  BY <1>1, RedeemIsInvariant, PTL

\* A row counted redeemed holds nothing once the chain is quiet, unless a
\* batch was given up.
THEOREM ClaimsPaid == Spec => []ClaimedArePaid
<1>1. RedeemInv => ClaimedArePaid
  BY DEF RedeemInv, BatchInv, ClaimedArePaid
<1>. QED
  BY <1>1, RedeemIsInvariant, PTL

\* A call that ends as drained, with no batch failed or reverted, leaves no
\* condition of its last page set worth min_shares, and missed no row of an
\* index that did not move.
THEOREM DrainedPaid == Spec => []DrainedMeansPaid
<1>1. RedeemInv => DrainedMeansPaid
  <2>. SUFFICES ASSUME RedeemInv, result = "drained", bad = 0, ~reverted
                PROVE (\A r \in ToSet(out) : ~Kept(CondOf[r])) /\ (still => missed = {})
    BY DEF DrainedMeansPaid
  <2>1. fetch = "redeemableDone" /\ ~hitCap /\ NothingLeft
    BY DEF RedeemInv, DrainInv
  <2>2. still => missed = {}
    BY <2>1 DEF RedeemInv, PagingInv, HitCapIsHonest
  <2>. QED
    BY <2>1, <2>2 DEF NothingLeft
<1>. QED
  BY <1>1, RedeemIsInvariant, PTL
=============================================================================
