----------------------------- MODULE DataPaging -----------------------------
(***************************************************************************)
(* all_positions and all_redeemable_positions of src/data.rs: a position   *)
(* index of the Data API is read page by page while it moves.  Offsets     *)
(* past the API's cap do not end the listing, they re-serve the page at    *)
(* the cap.                                                                *)
(***************************************************************************)
EXTENDS Lists

CONSTANTS
  Row,        \* position token ids (`asset`)
  Listings,   \* the listings the index may start with
  PageLimit,  \* PAGE_LIMIT
  MaxOffset   \* MAX_OFFSET, the API's offset cap

ASSUME PagingAssumption ==
  /\ IsFiniteSet(Row)
  /\ PageLimit \in Nat \ {0} /\ MaxOffset \in Nat
  /\ MaxOffset % PageLimit = 0
  /\ \A l \in Listings : l \in Seq(Row) /\ IsInjective(l)

VARIABLES
  listed,   \* the rows the index serves, in its order
  fetch,    \* the call that is paging, or how the last one ended
  offset,   \* offset of the next request
  out,      \* rows collected; for redeemable ones their ids are `seen`
  hitCap,   \* second component of all_redeemable_positions' result
  \* history, read by the properties alone
  still,    \* the index has not moved while the last call paged
  missed    \* rows of the index which the last call returned without

call  == <<fetch, offset, out, hitCap>>
pvars == <<listed, call, still, missed>>

Fetching == fetch \in {"all", "redeemable"}

PInit ==
  /\ listed \in Listings /\ fetch = "none"
  /\ offset = 0 /\ out = <<>> /\ hitCap = FALSE /\ still = TRUE /\ missed = {}

---------------------------------------------------------------------------
(* The index.                                                              *)

\* The request at `offset`; the API clamps the offset.
Served ==
  LET from == IF offset > MaxOffset THEN MaxOffset ELSE offset
      to   == IF from + PageLimit < Len(listed) THEN from + PageLimit ELSE Len(listed)
  IN  SubSeq(listed, from + 1, to)

Full == Len(Served) >= PageLimit

\* Rows leave the listing, or a condition's enter at its front.
Delist(gone) ==
  /\ gone \intersect ToSet(listed) # {}
  /\ listed' = Only(listed, Row \ gone)
  /\ still' = (still /\ ~Fetching) /\ UNCHANGED <<call, missed>>

Enlist(new) ==
  /\ ToSet(new) \intersect ToSet(listed) = {}
  /\ listed' = new \o listed /\ still' = (still /\ ~Fetching)
  /\ UNCHANGED <<call, missed>>

---------------------------------------------------------------------------
(* The client.                                                             *)

StartFetch(what) ==
  /\ ~Fetching /\ fetch' = what
  /\ offset' = 0 /\ out' = <<>> /\ hitCap' = FALSE
  /\ still' = TRUE /\ missed' = {} /\ UNCHANGED listed

GetNext == offset' = offset + PageLimit /\ UNCHANGED <<fetch, hitCap, missed>>
ReturnAll == fetch' = "allDone" /\ UNCHANGED <<offset, hitCap>>
ReturnRedeemable(capped) == fetch' = "redeemableDone" /\ hitCap' = capped /\ UNCHANGED offset
Missing == missed' = ToSet(listed) \ ToSet(out')

AllPagePastCap ==            \* mutant: stops one page past the cap
  /\ fetch = "all" /\ out' = out \o Served
  /\ IF Full /\ offset <= MaxOffset THEN GetNext ELSE ReturnAll /\ Missing
  /\ UNCHANGED <<listed, still>>
AllPage ==
  /\ fetch = "all" /\ out' = out \o Served
  /\ IF Full /\ offset < MaxOffset THEN GetNext ELSE ReturnAll /\ Missing
  /\ UNCHANGED <<listed, still>>

Unseen == Only(Served, Row \ ToSet(out))

RedeemablePageUncapped ==    \* mutant: a cut-off listing passes for a complete one
  /\ fetch = "redeemable" /\ out' = out \o Unseen
  /\ IF Full /\ offset < MaxOffset /\ Unseen # <<>>
       THEN GetNext ELSE ReturnRedeemable(Full /\ Unseen = <<>>) /\ Missing
  /\ UNCHANGED <<listed, still>>
RedeemablePage ==
  /\ fetch = "redeemable" /\ out' = out \o Unseen
  /\ IF Full /\ offset < MaxOffset /\ Unseen # <<>>
       THEN GetNext ELSE ReturnRedeemable(Full) /\ Missing
  /\ UNCHANGED <<listed, still>>

\* Transport error, 429, any other status: the rows read so far are dropped.
PageFails ==
  /\ Fetching /\ fetch' = "failed"
  /\ offset' = 0 /\ out' = <<>> /\ UNCHANGED <<listed, hitCap, still, missed>>

PageStep == AllPage \/ RedeemablePage \/ PageFails

---------------------------------------------------------------------------
\* all_redeemable_positions never returns a row twice, however the index moves
\* (its `seen`); all_positions, which has no such set, does not either while
\* the index is still ("Callers summing `size` per row would silently
\* double-count, so paging stops at the cap").
RowsAreDistinct ==
  fetch \in {"redeemable", "redeemableDone"} \/ still => IsInjective(out)

\* Over a still index both calls return every row within the API's reach,
\* and hit_cap says exactly that a listing reaches as far as the API does
\* (all_redeemable_positions, "a tail may remain beyond it").
Reach == MaxOffset + PageLimit
HitCapIsHonest ==
  still =>
    /\ fetch \in {"allDone", "redeemableDone"} /\ missed # {} => Len(out) = Reach
    /\ fetch = "redeemableDone" => (hitCap <=> Len(out) = Reach)
=============================================================================
