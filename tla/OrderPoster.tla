----------------------------- MODULE OrderPoster -----------------------------
(***************************************************************************)
(* The order write path, src/clob/poster.rs: a placer posts batches, a     *)
(* repricer pulls tracked orders, and a third task on the same API key     *)
(* cancels a side by listing it (cancel_orders_by_side) or reconciles      *)
(* after a failed placement.  Each runs at most one call at a time; they   *)
(* share the poster, its counters and its rate-limit signal, which a       *)
(* supervisor awaits.  Between them and the venue is `wire`: a request is  *)
(* served at any time after it was sent, also after its caller timed out   *)
(* or was dropped, and its answer may be lost.                             *)
(*                                                                         *)
(* Orders are the ids 1..n, in the order the venue lists them.             *)
(***************************************************************************)
EXTENDS Integers, FiniteSets

CONSTANTS
  Orders, SideOf,   \* the orders ever placed, [Orders -> side]
  PostChunk,        \* max_orders_per_post
  CancelChunk,      \* CANCEL_BATCH_SIZE
  PageSize,         \* of the venue's open-order listing
  MaxFaults, MaxCalls   \* bounds

ASSUME PosterAssumption ==
  /\ Orders \subseteq Nat /\ IsFiniteSet(Orders) /\ SideOf \in [Orders -> {"buy", "sell"}]
  /\ PostChunk \in Nat /\ CancelChunk \in Nat \ {0} /\ PageSize \in Nat \ {0}
  /\ MaxFaults \in Nat /\ MaxCalls \in Nat

VARIABLES
  singly,   \* the poster's cancel_endpoint is CancelEndpoint::Order
  book,     \* the venue: [Orders -> {"none", "live", "gone"}]
  wire,     \* requests sent and not served: [op, ids, from]
  known,    \* what the owner knows of each order
  place,    \* the placer's call
  cancel,   \* the repricer's call
  sweep,    \* the third task's call
  rate,     \* RateLimitSignal: endpoint, permit; `latest` is history
  sup,      \* the supervisor: awaiting `notified` or woken; the endpoint it read
  counted,  \* ApiCallCounters
  reached,  \* history: requests the venue served, by counter
  misread,  \* history: orders a failed singular cancel spoke of as ended
  used      \* bounds: faults, calls

vars == <<singly, book, wire, known, place, cancel, sweep, rate, sup, counted,
          reached, misread, used>>

Op == {"post", "orders", "order"}   \* POST /orders, DELETE /orders, DELETE /order

\* A call's requests: `pending` await an answer; `yes` are the orders accepted or
\* gone so far, `some` says a request succeeded, `alarm` is the 429 being
\* signalled: "no", "store", "notify".
NoCall == [ids |-> {}, pending |-> {}, yes |-> {}, some |-> FALSE, alarm |-> "no"]
Calling(c) == c.ids # {}
NoSweep == [pc |-> "idle", goal |-> "cancel", side |-> "buy", cursor |-> 0, found |-> {},
            start |-> {}, asked |-> {}, spoilt |-> FALSE, stuck |-> FALSE, rest |-> {}, pending |-> {}, alarm |-> "no"]

Init ==
  /\ singly \in BOOLEAN
  /\ book = [o \in Orders |-> "none"] /\ known = [o \in Orders |-> "new"]
  /\ wire = {} /\ place = NoCall /\ cancel = NoCall /\ sweep = NoSweep
  /\ rate = [endpoint |-> "place", permit |-> FALSE, latest |-> "none"]
  /\ sup = [awake |-> FALSE, seen |-> "none"]
  /\ counted = [op \in Op |-> 0] /\ reached = [op \in Op |-> 0]
  /\ misread = {} /\ used = [faults |-> 0, calls |-> 0]

---------------------------------------------------------------------------
(* slice::chunks and the listing, on sets of ids.                          *)

Rank(S, o) == Cardinality({p \in S : p < o})
Chunks(S, n) == {{o \in S : Rank(S, o) \div n = Rank(S, p) \div n} : p \in S}
FirstChunk(S, n) == {o \in S : Rank(S, o) < n}

Resting == {o \in Orders : book[o] = "live"}
Page(c)    == {o \in Resting : Rank(Resting, o) \in c..(c + PageSize - 1)}
LastPage(c) == c + PageSize >= Cardinality(Resting)   \* next_cursor = "LTE="

Max1(n) == IF n = 0 THEN 1 ELSE n
Requests(op, chunks, from) == {[op |-> op, ids |-> c, from |-> from] : c \in chunks}

SendCountedByCall(op, chunks, from) ==     \* mutant: one count for all chunks
  /\ wire' = wire \union Requests(op, chunks, from)
  /\ counted' = [counted EXCEPT ![op] = @ + 1]
\* Counted before the round trip: failures and timeouts count too.
Send(op, chunks, from) ==
  /\ wire' = wire \union Requests(op, chunks, from)
  /\ counted' = [counted EXCEPT ![op] = @ + Cardinality(chunks)]

\* Orders leaving the book while a listing is paged shift what is behind them.
Leave(S) == [sweep EXCEPT !.spoilt = @ \/ (sweep.pc = "paging" /\ S # {})]

Call  == used.calls < MaxCalls /\ used' = [used EXCEPT !.calls = @ + 1]
Fault == used.faults < MaxFaults /\ used' = [used EXCEPT !.faults = @ + 1]
Learn(S, what) == known' = [o \in Orders |-> IF o \in S THEN what ELSE known[o]]

---------------------------------------------------------------------------
(* Placing: place_resting, place_resting_sell and deep_warm_up sign a      *)
(* batch and hand it to post_signed; place_marketable_sell and post_one    *)
(* post a single order.  Every chunk is sent before the first answer.      *)

Posting(batch, n) ==
  /\ ~Calling(place) /\ batch # {} /\ \A o \in batch : known[o] = "new"
  /\ Learn(batch, "posting")
  /\ place' = [NoCall EXCEPT !.ids = batch, !.pending = Chunks(batch, n)]
  /\ Send("post", Chunks(batch, n), "place") /\ Call
  /\ UNCHANGED <<singly, book, cancel, sweep, rate, sup, reached, misread>>

PlaceResting ==
  \E s \in {"buy", "sell"} :
    \E batch \in SUBSET {o \in Orders : SideOf[o] = s} : Posting(batch, Max1(PostChunk))
PostOne == \E o \in Orders : Posting({o}, 1)

\* try_join_all: the first error is the result, and with it go the ids the
\* sibling chunks were answered.
PlaceFails == Learn(place.ids, "lost") /\ place' = NoCall

\* Every chunk was answered: the caller records the accepted orders.
PlaceReturns ==
  /\ Calling(place) /\ place.pending = {} /\ place.alarm = "no"
  /\ known' = [o \in Orders |-> IF o \notin place.ids THEN known[o]
                               ELSE IF o \in place.yes THEN "tracked" ELSE "closed"]
  /\ place' = NoCall
  /\ UNCHANGED <<singly, book, wire, cancel, sweep, rate, sup, counted, reached, misread, used>>

PlaceTimesOut ==
  /\ place.pending # {} /\ place.alarm = "no" /\ PlaceFails
  /\ UNCHANGED <<singly, book, wire, cancel, sweep, rate, sup, counted, reached, misread, used>>

---------------------------------------------------------------------------
(* The venue serves a placement: it accepts some orders, of which some     *)
(* rest; the others (the FAK and FOK ones always) are matched at once,     *)
(* killed or refused.                                                      *)

Serving(r) ==
  /\ wire' = wire \ {r}
  /\ reached' = [reached EXCEPT ![r.op] = @ + 1]
AwaitedByPlacer(r) == r.from = "place" /\ r.ids \in place.pending /\ place.alarm = "no"

PostServed(r) ==
  /\ r.op = "post" /\ Serving(r)
  /\ \E accepted \in SUBSET r.ids : \E rests \in SUBSET accepted :
       /\ book' = [o \in Orders |-> IF o \notin r.ids THEN book[o]
                                   ELSE IF o \in rests THEN "live" ELSE "gone"]
       /\ \/ /\ AwaitedByPlacer(r)
             /\ place' = [place EXCEPT !.pending = @ \ {r.ids}, !.yes = @ \union accepted]
             /\ UNCHANGED <<known, used>>
          \/ /\ IF AwaitedByPlacer(r) THEN Fault ELSE UNCHANGED used
             /\ UNCHANGED <<place, known>>
  /\ UNCHANGED <<singly, cancel, sweep, rate, sup, counted, misread>>

\* An answer that does not name every order of the chunk is no answer.
ShortCounted(r) ==                       \* mutant: the length check is dropped
  /\ place' = [place EXCEPT !.pending = @ \ {r.ids}] /\ UNCHANGED known
ShortAnswer(r) == PlaceFails
PostServedShort(r) ==
  /\ r.op = "post" /\ Serving(r) /\ AwaitedByPlacer(r) /\ Fault
  /\ book' = [o \in Orders |-> IF o \in r.ids THEN "live" ELSE book[o]]
  /\ ShortAnswer(r)
  /\ UNCHANGED <<singly, cancel, sweep, rate, sup, counted, misread>>

\* A 429 or another non-2xx: nothing was placed.
PostTurnedAway(r) ==
  /\ r.op = "post" /\ Serving(r) /\ AwaitedByPlacer(r) /\ Fault
  /\ \/ PlaceFails
     \/ place' = [place EXCEPT !.alarm = "store"] /\ UNCHANGED known
  /\ UNCHANGED <<singly, book, cancel, sweep, rate, sup, counted, misread>>

---------------------------------------------------------------------------
(* Cancelling tracked orders: cancel_for_reprice, then partition_cancels.  *)

CancelForReprice ==
  /\ ~Calling(cancel) /\ Call
  /\ \E ids \in (SUBSET {o \in Orders : known[o] = "tracked"}) \ {{}} :
       LET chunks == IF singly THEN {{o} : o \in ids} ELSE {ids}
       IN  /\ cancel' = [NoCall EXCEPT !.ids = ids, !.pending = chunks]
           /\ Send(IF singly THEN "order" ELSE "orders", chunks, "cancel")
  /\ UNCHANGED <<singly, book, known, place, sweep, rate, sup, reached, misread>>

AwaitedByRepricer(r) == r.from = "cancel" /\ r.ids \in cancel.pending /\ cancel.alarm = "no"
AwaitedBySweeper(r)  ==
  r.from = "sweep" /\ sweep.pc = "batches" /\ r.ids = sweep.pending /\ sweep.alarm = "no"

\* The venue cancels some of the resting orders named, and says of some of those
\* that are gone that they are; the others it refuses or leaves out.
Cancels(r, cancelled, ended) ==
  /\ book' = [o \in Orders |-> IF o \in cancelled THEN "gone" ELSE book[o]]
  /\ LET left == Leave(cancelled)
     IN  \/ /\ AwaitedByRepricer(r) /\ UNCHANGED used /\ sweep' = left
            /\ cancel' = [cancel EXCEPT !.pending = @ \ {r.ids}, !.some = TRUE,
                                        !.yes = @ \union cancelled \union ended]
         \/ /\ AwaitedBySweeper(r) /\ UNCHANGED <<used, cancel>>
            /\ sweep' = [left EXCEPT !.pending = {}, !.asked = @ \union r.ids]
         \/ /\ IF AwaitedByRepricer(r) \/ AwaitedBySweeper(r) THEN Fault ELSE UNCHANGED used
            /\ sweep' = left /\ UNCHANGED cancel
CancelServed(r) ==
  /\ r.op # "post" /\ Serving(r)
  /\ \E cancelled \in SUBSET (r.ids \intersect Resting), ended \in SUBSET (r.ids \ Resting) :
       Cancels(r, cancelled, ended)
  /\ UNCHANGED <<singly, known, place, rate, sup, counted, misread>>

\* A request of the repricer failed.  cancel_singly folds the error's text into
\* not_canceled, where the words of a terminal reason are looked for.
CancelFailed(ids, terminal) ==
  LET folded == IF singly /\ terminal THEN ids ELSE {}
  IN  /\ cancel' = [cancel EXCEPT !.pending = @ \ {ids}, !.yes = @ \union folded]
      /\ misread' = misread \union folded

SweepFails == sweep' = NoSweep

CancelTurnedAway(r) ==
  /\ r.op # "post" /\ Serving(r) /\ Fault
  /\ \/ AwaitedByRepricer(r) /\ UNCHANGED sweep /\ \E t \in BOOLEAN : CancelFailed(r.ids, t)
     \/ /\ AwaitedByRepricer(r) /\ UNCHANGED <<sweep, misread>>
        /\ cancel' = [cancel EXCEPT !.pending = @ \ {r.ids}, !.alarm = "store"]
     \/ AwaitedBySweeper(r) /\ UNCHANGED <<cancel, misread>> /\ SweepFails
     \/ /\ AwaitedBySweeper(r) /\ UNCHANGED <<cancel, misread>>
        /\ sweep' = [sweep EXCEPT !.alarm = "store"]
  /\ UNCHANGED <<singly, book, known, place, rate, sup, counted>>

CancelTimesOut ==
  /\ cancel.alarm = "no" /\ \E ids \in cancel.pending : CancelFailed(ids, FALSE)
  /\ UNCHANGED <<singly, book, wire, known, place, sweep, rate, sup, counted, reached, used>>

\* partition_cancels: `done` leaves tracking, the rest is retried; a failed call
\* retries everything.
DoneIfSent == cancel.ids                       \* mutant: asked is cancelled
Done == IF cancel.some THEN cancel.yes ELSE {}

CancelReturns ==
  /\ Calling(cancel) /\ cancel.pending = {} /\ cancel.alarm = "no"
  /\ Learn(Done, "closed")
  /\ cancel' = NoCall
  /\ UNCHANGED <<singly, book, wire, place, sweep, rate, sup, counted, reached, misread, used>>

---------------------------------------------------------------------------
(* Listing the open orders page by page (all_open_orders), to reconcile    *)
(* after a failed placement or to cancel a side in batches.                *)

StartSweep ==
  /\ sweep.pc = "idle" /\ Call
  /\ \/ sweep' = [NoSweep EXCEPT !.pc = "paging", !.goal = "reconcile"]
     \/ \E side \in {"buy", "sell"} :
          sweep' = [NoSweep EXCEPT !.pc = "paging", !.side = side,
                                   !.start = {o \in Resting : SideOf[o] = side}]
  /\ UNCHANGED <<singly, book, wire, known, place, cancel, rate, sup, counted, reached, misread>>

\* The next cursor the venue names; a stuck listing names the same one over and
\* over.  The loop ends at the terminal cursor or at one it has just used.
NextCursor(stuck) == IF stuck THEN PageSize ELSE sweep.cursor + PageSize
EndsAtTerminal(next) == LastPage(sweep.cursor)       \* mutant: trusts the venue
EndsAtOnce(next) == sweep.cursor = 0                 \* mutant: the first page is all
Ends(next) == LastPage(sweep.cursor) \/ next = sweep.cursor
AfterPage(found, stuck) ==
  LET next == NextCursor(stuck)
  IN  CASE ~Ends(next) ->
             /\ sweep' = [sweep EXCEPT !.found = found, !.stuck = stuck, !.cursor = next,
                                       !.spoilt = @ \/ stuck]
             /\ UNCHANGED known
        [] Ends(next) /\ sweep.goal = "cancel" ->
             /\ sweep' = [sweep EXCEPT !.pc = "batches", !.spoilt = @ \/ stuck,
                                       !.rest = {o \in found : SideOf[o] = sweep.side}]
             /\ UNCHANGED known
        [] Ends(next) /\ sweep.goal = "reconcile" ->   \* lost orders are tracked again
             /\ Learn({o \in found : known[o] = "lost"}, "tracked")
             /\ sweep' = NoSweep
GetPage ==
  /\ sweep.pc = "paging"
  /\ \/ /\ \E stuck \in IF sweep.cursor = 0 /\ ~LastPage(0) THEN BOOLEAN ELSE {sweep.stuck} :
             AfterPage(sweep.found \union Page(sweep.cursor), stuck)
        /\ UNCHANGED used
     \/ SweepFails /\ Fault /\ UNCHANGED known
  /\ UNCHANGED <<singly, book, wire, place, cancel, rate, sup, counted, reached, misread>>

\* cancel_in_batches: one chunk at a time.
CancelBatch ==
  /\ sweep.pc = "batches" /\ sweep.pending = {} /\ sweep.rest # {}
  /\ LET chunk == FirstChunk(sweep.rest, CancelChunk)
     IN  /\ sweep' = [sweep EXCEPT !.pending = chunk, !.rest = @ \ chunk]
         /\ Send("orders", {chunk}, "sweep")
  /\ UNCHANGED <<singly, book, known, place, cancel, rate, sup, reached, misread, used>>

BatchTimesOut ==
  /\ sweep.pending # {} /\ sweep.alarm = "no" /\ SweepFails
  /\ UNCHANGED <<singly, book, wire, known, place, cancel, rate, sup, counted, reached, misread, used>>

SideCancelled ==
  sweep.pc = "batches" /\ sweep.pending = {} /\ sweep.rest = {} /\ sweep.alarm = "no"
SweepReturns ==
  /\ SideCancelled /\ sweep' = NoSweep
  /\ UNCHANGED <<singly, book, wire, known, place, cancel, rate, sup, counted, reached, misread, used>>

---------------------------------------------------------------------------
(* RateLimitSignal: the endpoint is stored, then one permit is left.       *)

Store(endpoint) == rate' = [rate EXCEPT !.endpoint = endpoint, !.latest = endpoint]
Notify          == rate' = [rate EXCEPT !.permit = TRUE]

\* The two steps of a call's signalling, after which it goes on with its error.
WakesFirst(step, endpoint) == IF step = "store" THEN Notify ELSE Store(endpoint)   \* mutant
Signals(step, endpoint) == IF step = "store" THEN Store(endpoint) ELSE Notify

PlaceSignals ==
  /\ \/ /\ place.alarm = "store" /\ Signals("store", "place")
        /\ place' = [place EXCEPT !.alarm = "notify"] /\ UNCHANGED known
     \/ place.alarm = "notify" /\ Signals("notify", "place") /\ PlaceFails
  /\ UNCHANGED <<singly, book, wire, cancel, sweep, sup, counted, reached, misread, used>>

CancelSignals ==
  /\ \/ cancel.alarm = "store" /\ Signals("store", "cancel") /\ cancel' = [cancel EXCEPT !.alarm = "notify"]
     \/ cancel.alarm = "notify" /\ Signals("notify", "cancel") /\ cancel' = [cancel EXCEPT !.alarm = "no"]
  /\ UNCHANGED <<singly, book, wire, known, place, sweep, sup, counted, reached, misread, used>>

SweepSignals ==
  /\ \/ sweep.alarm = "store" /\ Signals("store", "cancel") /\ sweep' = [sweep EXCEPT !.alarm = "notify"]
     \/ sweep.alarm = "notify" /\ Signals("notify", "cancel") /\ SweepFails
  /\ UNCHANGED <<singly, book, wire, known, place, cancel, sup, counted, reached, misread, used>>

\* The supervisor takes the permit, and reads the endpoint later.
Supervise ==
  /\ \/ ~sup.awake /\ rate.permit
        /\ sup' = [sup EXCEPT !.awake = TRUE] /\ rate' = [rate EXCEPT !.permit = FALSE]
     \/ sup.awake /\ sup' = [awake |-> FALSE, seen |-> rate.endpoint] /\ UNCHANGED rate
  /\ UNCHANGED <<singly, book, wire, known, place, cancel, sweep, counted, reached, misread, used>>

---------------------------------------------------------------------------
\* A resting order is filled or expires.
Fill ==
  /\ \E o \in Resting : book' = [book EXCEPT ![o] = "gone"] /\ sweep' = Leave({o})
  /\ UNCHANGED <<singly, wire, known, place, cancel, rate, sup, counted, reached, misread, used>>

Placer    == PlaceReturns \/ PlaceTimesOut \/ PlaceSignals
Repricer  == CancelReturns \/ CancelTimesOut \/ CancelSignals
Sweeper   == GetPage \/ CancelBatch \/ BatchTimesOut
               \/ SweepReturns \/ SweepSignals
Callers   == PlaceResting \/ PostOne \/ CancelForReprice \/ StartSweep
Venue     == Fill \/ \E r \in wire : \/ PostServed(r) \/ PostServedShort(r) \/ PostTurnedAway(r)
                                    \/ CancelServed(r) \/ CancelTurnedAway(r)
Next == Placer \/ Repricer \/ Sweeper \/ Supervise \/ Callers \/ Venue
Spec == Init /\ [][Next]_vars

\* tokio runs a ready task, and REQUEST_TIMEOUT ends every wait for the venue.
FairSpec == Spec /\ WF_vars(Sweeper)

---------------------------------------------------------------------------
\* A placement that returned Ok left no order resting outside tracking, orders
\* rest unknown only after a placement that failed, and an order leaves tracking
\* only when it is gone - unless the text of a failed singular cancel was misread
\* (partition_cancels, "a still-live order is never dropped").
Tracking == INSTANCE OrderTracking WITH venue <- book
ImplementsOrderTracking == Tracking!Spec

\* An Ok of cancel_orders_by_side accounts for the whole side: each order resting
\* on it when the call began is gone or was named in an answered DELETE, whatever
\* was placed, filled and cancelled meanwhile - unless orders left the listing
\* while it was paged and shifted the rest.
OkCoversTheSide ==
  SideCancelled /\ ~sweep.spoilt =>
    \A o \in sweep.start : book[o] = "gone" \/ o \in sweep.asked

\* When all is quiet the supervisor has woken since the latest 429 and has read
\* its endpoint, however the 429s and its wake-ups interleaved (signal, "the
\* store is released before the wake").
Quiet == ~rate.permit /\ ~sup.awake /\ \A c \in {place, cancel, sweep} : c.alarm # "notify"
WakeNamesLatest == Quiet => sup.seen = rate.latest

\* No request reaches the venue uncounted: what was dropped, timed out or refused
\* counts against its rate limit (ApiCallCounters).
CountersCoverWire == \A op \in Op : reached[op] <= counted[op]

\* The call that lists open orders ends, though orders come and go, the venue may
\* name one cursor for ever, and a batch may never be answered.
ListingEnds == sweep.pc # "idle" ~> sweep.pc = "idle"
=============================================================================
