-------------------------- MODULE OrderPosterProofs --------------------------
(***************************************************************************)
(* The safety properties of OrderPoster, for every set of orders, chunk    *)
(* and page size, and every bound.                                         *)
(***************************************************************************)
EXTENDS OrderPoster, FiniteSetTheorems, TLAPS

Alarm    == {"no", "store", "notify"}
CallType == [ids : SUBSET Orders, pending : SUBSET SUBSET Orders, yes : SUBSET Orders,
             some : BOOLEAN, alarm : Alarm]
SweepType ==
  [pc : {"idle", "paging", "batches"}, goal : {"cancel", "reconcile"}, side : {"buy", "sell"},
   cursor : Nat, found : SUBSET Orders, start : SUBSET Orders, asked : SUBSET Orders,
   spoilt : BOOLEAN, stuck : BOOLEAN, rest : SUBSET Orders, pending : SUBSET Orders, alarm : Alarm]
Endpoints == {"none", "place", "cancel"}
RateType  == [endpoint : Endpoints, permit : BOOLEAN, latest : Endpoints]
SupType   == [awake : BOOLEAN, seen : Endpoints]
UsedType  == [faults : Nat, calls : Nat]
KnownType == [Orders -> {"new", "posting", "tracked", "lost", "closed"}]
BookType  == [Orders -> {"none", "live", "gone"}]
Request   == [op : Op, ids : SUBSET Orders, from : {"place", "cancel", "sweep"}]

\* Every variable has its type, in every state (new, FastPoster).
TypeOK ==
  /\ singly \in BOOLEAN
  /\ book \in BookType /\ known \in KnownType
  /\ wire \in SUBSET Request
  /\ place \in CallType /\ cancel \in CallType /\ sweep \in SweepType
  /\ rate \in RateType /\ sup \in SupType
  /\ counted \in [Op -> Nat] /\ reached \in [Op -> Nat]
  /\ misread \in SUBSET Orders
  /\ used \in UsedType

---------------------------------------------------------------------------
(* The chunks of a batch.                                                  *)

\* Chunks partition a set (slice::chunks in post_signed).
LEMMA ChunksPartition ==
  ASSUME NEW n, NEW T \in SUBSET Orders
  PROVE  /\ Chunks(T, n) \in SUBSET SUBSET T
         /\ UNION Chunks(T, n) = T
         /\ \A A, B \in Chunks(T, n) : A # B => A \intersect B = {}
BY DEF Chunks

\* A batch of finitely many orders has finitely many chunks.
LEMMA ChunksFinite ==
  ASSUME NEW n, NEW T \in SUBSET Orders
  PROVE  IsFiniteSet(Chunks(T, n)) /\ Cardinality(Chunks(T, n)) \in Nat
<1>1. IsFiniteSet(T)
  BY PosterAssumption, FS_Subset
<1>2. IsFiniteSet(SUBSET T)
  BY <1>1, FS_SUBSET
<1>3. Chunks(T, n) \subseteq SUBSET T
  BY ChunksPartition
<1>. QED
  BY <1>2, <1>3, FS_Subset, FS_CardinalityType

\* One chunk of one batch, and the chunks of any, are requests.
LEMMA RequestsTyped ==
  ASSUME NEW op \in Op, NEW chunks \in SUBSET SUBSET Orders, NEW from \in {"place", "cancel", "sweep"}
  PROVE  Requests(op, chunks, from) \subseteq Request
BY DEF Requests, Request

\* What a call counts is a natural number.
LEMMA SendTyped ==
  ASSUME NEW op \in Op, NEW chunks \in SUBSET SUBSET Orders, NEW from \in {"place", "cancel", "sweep"},
         IsFiniteSet(chunks), wire \in SUBSET Request, counted \in [Op -> Nat], Send(op, chunks, from)
  PROVE  wire' \in SUBSET Request /\ counted' \in [Op -> Nat]
<1>1. Cardinality(chunks) \in Nat
  BY FS_CardinalityType
<1>2. wire' \in SUBSET Request
  BY RequestsTyped DEF Send
<1>3. counted' \in [Op -> Nat]
  BY <1>1 DEF Send
<1>. QED
  BY <1>2, <1>3

\* The steps of signalling keep the signal's type.
LEMMA SignalsTyped ==
  ASSUME NEW step, NEW endpoint \in {"place", "cancel"}, rate \in RateType, Signals(step, endpoint)
  PROVE  rate' \in RateType
<1>1. CASE step = "store"
  BY <1>1 DEF Signals, Store, RateType, Endpoints
<1>2. CASE step # "store"
  BY <1>2 DEF Signals, Notify, RateType
<1>. QED
  BY <1>1, <1>2

\* So do what the owner learns, and the bounds.
LEMMA LearnTyped ==
  ASSUME NEW T, NEW what \in {"new", "posting", "tracked", "lost", "closed"}, known \in KnownType, Learn(T, what)
  PROVE  known' \in KnownType
BY DEF Learn, KnownType

\* Spending a unit of either bound keeps the bounds typed.
LEMMA UsedTyped ==
  ASSUME used \in UsedType, Fault \/ Call
  PROVE  used' \in UsedType
BY DEF Fault, Call, UsedType

\* Being in no call, and sweeping nothing, are among the call's and the sweep's values.
LEMMA NoCallTyped == NoCall \in CallType /\ NoSweep \in SweepType
BY DEF NoCall, CallType, NoSweep, SweepType, Alarm

\* A served request leaves the wire and is counted at the venue.
LEMMA ServingTyped ==
  ASSUME wire \in SUBSET Request, reached \in [Op -> Nat], NEW r \in wire, Serving(r)
  PROVE  wire' \in SUBSET Request /\ reached' \in [Op -> Nat] /\ r.ids \in SUBSET Orders
BY DEF Serving, Request

\* What a departure leaves of the sweep is a sweep.
LEMMA LeaveTyped ==
  ASSUME sweep \in SweepType, NEW T
  PROVE  Leave(T) \in SweepType
BY DEF Leave, SweepType

\* The singletons of finitely many orders are finitely many.
LEMMA SingletonsFinite ==
  ASSUME NEW T \in SUBSET Orders
  PROVE  IsFiniteSet({{o} : o \in T})
<1>1. IsFiniteSet(SUBSET Orders)
  BY PosterAssumption, FS_SUBSET
<1>. QED
  BY <1>1, FS_Subset

\* Starting a placement keeps the types.
LEMMA PostingTyped ==
  ASSUME TypeOK, NEW batch \in SUBSET Orders, NEW n \in Nat, Posting(batch, n)
  PROVE  TypeOK'
<1>1. Chunks(batch, n) \in SUBSET SUBSET Orders /\ IsFiniteSet(Chunks(batch, n))
  BY ChunksPartition, ChunksFinite
<1>2. wire' \in SUBSET Request /\ counted' \in [Op -> Nat]
  BY <1>1, SendTyped DEF Posting, TypeOK, Op
<1>3. known' \in KnownType /\ used' \in UsedType
  BY LearnTyped, UsedTyped DEF Posting, TypeOK
<1>4. place' \in CallType
  BY <1>1 DEF Posting, NoCall, CallType, Alarm
<1>. QED
  BY <1>2, <1>3, <1>4 DEF Posting, TypeOK

\* The ways in which a call's requests are done with keep it a call.
LEMMA CallTyped ==
  ASSUME NEW c \in CallType, NEW ids, NEW more \in SUBSET Orders
  PROVE  [c EXCEPT !.pending = @ \ {ids}, !.yes = @ \union more] \in CallType
<1>1. c.pending \ {ids} \in SUBSET SUBSET Orders /\ c.yes \union more \in SUBSET Orders
  BY DEF CallType
<1>. QED
  BY <1>1 DEF CallType

\* A cancel of any ids, chunked or one by one, is a call.
LEMMA CancelTyped ==
  ASSUME cancel \in CallType, NEW ids, NEW more \in SUBSET Orders, NEW others \in SUBSET Orders
  PROVE  [cancel EXCEPT !.pending = @ \ {ids}, !.some = TRUE, !.yes = @ \union more \union others] \in CallType
<1>1. cancel.pending \ {ids} \in SUBSET SUBSET Orders /\ cancel.yes \union more \union others \in SUBSET Orders
  BY DEF CallType
<1>. QED
  BY <1>1 DEF CallType

\* Noting which signal a call waits for keeps it a call.
LEMMA CallAlarmed ==
  ASSUME NEW c \in CallType, NEW ids, NEW alarm \in Alarm
  PROVE  /\ [c EXCEPT !.pending = @ \ {ids}, !.alarm = alarm] \in CallType
         /\ [c EXCEPT !.alarm = alarm] \in CallType
<1>1. c.pending \ {ids} \in SUBSET SUBSET Orders
  BY DEF CallType
<1>. QED
  BY <1>1 DEF CallType

\* Failing a request of the repricer keeps the types.
LEMMA CancelFailedTyped ==
  ASSUME cancel \in CallType, misread \in SUBSET Orders, NEW ids \in cancel.pending, NEW terminal, CancelFailed(ids, terminal)
  PROVE  cancel' \in CallType /\ misread' \in SUBSET Orders
<1>. DEFINE folded == IF singly /\ terminal THEN ids ELSE {}
<1>1. folded \in SUBSET Orders
  BY DEF CallType
<1>2. cancel' = [cancel EXCEPT !.pending = @ \ {ids}, !.yes = @ \union folded] /\ misread' = misread \union folded
  BY DEF CancelFailed
<1>. HIDE DEF folded
<1>. QED
  BY <1>1, <1>2, CallTyped

\* A page and what follows it keep the types.
LEMMA AfterPageTyped ==
  ASSUME sweep \in SweepType, known \in KnownType, NEW found \in SUBSET Orders, NEW stuck \in BOOLEAN, AfterPage(found, stuck)
  PROVE  sweep' \in SweepType /\ known' \in KnownType
<1>. DEFINE next == NextCursor(stuck)
<1>1. next \in Nat
  BY PosterAssumption DEF NextCursor, SweepType
<1>2. CASE ~Ends(next)
  BY <1>1, <1>2 DEF AfterPage, SweepType
<1>3. CASE Ends(next) /\ sweep.goal = "cancel"
  <2>1. {o \in found : SideOf[o] = sweep.side} \in SUBSET Orders /\ (sweep.spoilt \/ stuck) \in BOOLEAN
    OBVIOUS
  <2>2. /\ sweep' = [sweep EXCEPT !.pc = "batches", !.spoilt = @ \/ stuck,
                                  !.rest = {o \in found : SideOf[o] = sweep.side}]
        /\ known' = known
    BY <1>3 DEF AfterPage, SweepType
  <2>. QED
    BY <2>1, <2>2 DEF SweepType
<1>4. CASE Ends(next) /\ sweep.goal = "reconcile"
  BY <1>4, LearnTyped, NoCallTyped DEF AfterPage
<1>. QED
  BY <1>2, <1>3, <1>4 DEF SweepType

\* Type correctness: every variable keeps its type in every reachable state.
THEOREM TypeCorrect == Spec => []TypeOK
<1>1. Init => TypeOK
  BY NoCallTyped DEF Init, TypeOK, BookType, KnownType, RateType, SupType, UsedType, Endpoints, Op
<1>2. TypeOK /\ [Next]_vars => TypeOK'
  <2>. SUFFICES ASSUME TypeOK, [Next]_vars PROVE TypeOK'
    OBVIOUS
  <2>. USE DEF TypeOK
  <2>1. CASE PlaceReturns
    <3>1. known' \in KnownType
      BY <2>1 DEF PlaceReturns, KnownType
    <3>. QED
      BY <2>1, <3>1, NoCallTyped DEF PlaceReturns
  <2>2. CASE PlaceTimesOut
    <3>1. known' \in KnownType
      BY <2>2, LearnTyped DEF PlaceTimesOut, PlaceFails
    <3>. QED
      BY <2>2, <3>1, NoCallTyped DEF PlaceTimesOut, PlaceFails
  <2>3. CASE PlaceSignals
    <3>1. rate' \in RateType
      BY <2>3, SignalsTyped DEF PlaceSignals
    <3>2. known' \in KnownType
      BY <2>3, LearnTyped DEF PlaceSignals, PlaceFails
    <3>3. place' \in CallType
      BY <2>3, NoCallTyped DEF PlaceSignals, PlaceFails, CallType, Alarm
    <3>. QED
      BY <2>3, <3>1, <3>2, <3>3 DEF PlaceSignals
  <2>4. CASE CancelReturns
    <3>1. known' \in KnownType
      BY <2>4, LearnTyped DEF CancelReturns
    <3>. QED
      BY <2>4, <3>1, NoCallTyped DEF CancelReturns
  <2>5. CASE CancelTimesOut
    <3>1. cancel' \in CallType /\ misread' \in SUBSET Orders
      BY <2>5, CancelFailedTyped DEF CancelTimesOut
    <3>. QED
      BY <2>5, <3>1 DEF CancelTimesOut
  <2>6. CASE CancelSignals
    <3>1. rate' \in RateType
      BY <2>6, SignalsTyped DEF CancelSignals
    <3>2. cancel' \in CallType
      BY <2>6 DEF CancelSignals, CallType, Alarm
    <3>. QED
      BY <2>6, <3>1, <3>2 DEF CancelSignals
  <2>7. CASE GetPage
    <3>1. ASSUME NEW stuck \in BOOLEAN, AfterPage(sweep.found \union Page(sweep.cursor), stuck)
          PROVE  sweep' \in SweepType /\ known' \in KnownType
      <4>1. sweep.found \union Page(sweep.cursor) \in SUBSET Orders
        BY DEF Page, Resting, SweepType
      <4>. QED
        BY <3>1, <4>1, AfterPageTyped
    <3>2. ASSUME SweepFails, UNCHANGED known PROVE sweep' \in SweepType /\ known' \in KnownType
      BY <3>2, NoCallTyped DEF SweepFails
    <3>3. used' \in UsedType
      BY <2>7, UsedTyped DEF GetPage
    <3>4. sweep.stuck \in BOOLEAN
      BY DEF SweepType
    <3>. QED
      BY <2>7, <3>1, <3>2, <3>3, <3>4 DEF GetPage
  <2>8. CASE CancelBatch
    <3>1. sweep' \in SweepType /\ {FirstChunk(sweep.rest, CancelChunk)} \in SUBSET SUBSET Orders
      BY <2>8 DEF CancelBatch, FirstChunk, SweepType
    <3>2. Send("orders", {FirstChunk(sweep.rest, CancelChunk)}, "sweep")
      BY <2>8 DEF CancelBatch
    <3>3. IsFiniteSet({FirstChunk(sweep.rest, CancelChunk)})
      BY <2>8, FS_Singleton
    <3>4. wire' \in SUBSET Request /\ counted' \in [Op -> Nat]
      BY <2>8, <3>1, <3>2, <3>3, SendTyped DEF Op
    <3>. QED
      BY <2>8, <3>1, <3>2, <3>3, <3>4 DEF CancelBatch
  <2>9. CASE BatchTimesOut
    BY <2>9, NoCallTyped DEF BatchTimesOut, SweepFails
  <2>10. CASE SweepReturns
    BY <2>10, NoCallTyped DEF SweepReturns
  <2>11. CASE SweepSignals
    <3>1. rate' \in RateType
      BY <2>11, SignalsTyped DEF SweepSignals
    <3>2. sweep' \in SweepType
      BY <2>11, NoCallTyped DEF SweepSignals, SweepFails, SweepType, Alarm
    <3>. QED
      BY <2>11, <3>1, <3>2 DEF SweepSignals
  <2>12. CASE Supervise
    <3>1. CASE ~sup.awake
      BY <2>12, <3>1 DEF Supervise, RateType, SupType
    <3>2. CASE sup.awake
      <4>1. sup' = [awake |-> FALSE, seen |-> rate.endpoint] /\ rate' = rate
        BY <2>12, <3>2 DEF Supervise
      <4>2. rate.endpoint \in Endpoints
        BY DEF RateType
      <4>3. sup' \in SupType
        BY <4>1, <4>2 DEF SupType
      <4>. QED
        BY <2>12, <4>1, <4>3 DEF Supervise
    <3>. QED
      BY <3>1, <3>2
  <2>13. CASE PlaceResting
    <3>1. PICK batch \in SUBSET Orders, n \in Nat : Posting(batch, n)
      BY <2>13, PosterAssumption DEF PlaceResting, Max1
    <3>. QED
      BY <3>1, PostingTyped
  <2>14. CASE PostOne
    <3>1. PICK batch \in SUBSET Orders, n \in Nat : Posting(batch, n)
      BY <2>14, PosterAssumption DEF PostOne, Max1
    <3>. QED
      BY <3>1, PostingTyped
  <2>15. CASE CancelForReprice
    <3>1. PICK ids \in SUBSET Orders :
            LET chunks == IF singly THEN {{o} : o \in ids} ELSE {ids}
            IN  /\ cancel' = [NoCall EXCEPT !.ids = ids, !.pending = chunks]
                /\ Send(IF singly THEN "order" ELSE "orders", chunks, "cancel")
      BY <2>15 DEF CancelForReprice
    <3>. DEFINE chunks == IF singly THEN {{o} : o \in ids} ELSE {ids}
    <3>5. chunks \in SUBSET SUBSET Orders
      OBVIOUS
    <3>2. IsFiniteSet(chunks)
      BY SingletonsFinite, FS_Singleton
    <3>3. wire' \in SUBSET Request /\ counted' \in [Op -> Nat]
      BY <3>1, <3>2, <3>5, SendTyped DEF Op
    <3>4. cancel' \in CallType
      BY <3>1, <3>5 DEF NoCall, CallType, Alarm
    <3>6. used' \in UsedType
      BY <2>15, UsedTyped DEF CancelForReprice
    <3>. QED
      BY <2>15, <3>3, <3>4, <3>6 DEF CancelForReprice
  <2>16. CASE StartSweep
    <3>1. sweep' \in SweepType
      <4>1. ASSUME NEW side \in {"buy", "sell"}
            PROVE  [NoSweep EXCEPT !.pc = "paging", !.side = side,
                                   !.start = {o \in Resting : SideOf[o] = side}] \in SweepType
        BY <4>1 DEF NoSweep, SweepType, Resting, Alarm
      <4>2. [NoSweep EXCEPT !.pc = "paging", !.goal = "reconcile"] \in SweepType
        BY DEF NoSweep, SweepType, Alarm
      <4>. QED
        BY <2>16, <4>1, <4>2 DEF StartSweep
    <3>2. used' \in UsedType
      BY <2>16, UsedTyped DEF StartSweep
    <3>. QED
      BY <2>16, <3>1, <3>2 DEF StartSweep
  <2>17. CASE Fill
    <3>1. book' \in BookType /\ sweep' \in SweepType
      BY <2>17, LeaveTyped DEF Fill, Resting, BookType
    <3>. QED
      BY <2>17, <3>1 DEF Fill
  <2>18. ASSUME NEW r \in wire, PostServed(r) PROVE TypeOK'
    <3>1. wire' \in SUBSET Request /\ reached' \in [Op -> Nat] /\ r.ids \in SUBSET Orders
      BY <2>18, ServingTyped DEF PostServed
    <3>2. book' \in BookType
      BY <2>18 DEF PostServed, BookType
    <3>3. place' \in CallType
      <4>1. PICK accepted \in SUBSET r.ids :
              place' \in {place, [place EXCEPT !.pending = @ \ {r.ids}, !.yes = @ \union accepted]}
        BY <2>18 DEF PostServed
      <4>2. accepted \in SUBSET Orders
        BY <3>1
      <4>3. [place EXCEPT !.pending = @ \ {r.ids}, !.yes = @ \union accepted] \in CallType
        BY <4>2, CallTyped, Zenon
      <4>. QED
        BY <4>1, <4>3, Zenon
    <3>4. used' \in UsedType
      BY <2>18, UsedTyped DEF PostServed
    <3>. QED
      BY <2>18, <3>1, <3>2, <3>3, <3>4 DEF PostServed
  <2>19. ASSUME NEW r \in wire, PostServedShort(r) PROVE TypeOK'
    <3>1. wire' \in SUBSET Request /\ reached' \in [Op -> Nat] /\ r.ids \in SUBSET Orders
      BY <2>19, ServingTyped DEF PostServedShort
    <3>2. book' \in BookType
      BY <2>19 DEF PostServedShort, BookType
    <3>3. place' \in CallType /\ known' \in KnownType
      BY <2>19, LearnTyped, NoCallTyped DEF PostServedShort, ShortAnswer, PlaceFails
    <3>4. used' \in UsedType
      BY <2>19, UsedTyped DEF PostServedShort
    <3>. QED
      BY <2>19, <3>1, <3>2, <3>3, <3>4 DEF PostServedShort
  <2>20. ASSUME NEW r \in wire, PostTurnedAway(r) PROVE TypeOK'
    <3>1. wire' \in SUBSET Request /\ reached' \in [Op -> Nat] /\ r.ids \in SUBSET Orders
      BY <2>20, ServingTyped DEF PostTurnedAway
    <3>2. place' \in CallType /\ known' \in KnownType
      BY <2>20, LearnTyped, NoCallTyped DEF PostTurnedAway, PlaceFails, CallType, Alarm
    <3>3. used' \in UsedType
      BY <2>20, UsedTyped DEF PostTurnedAway
    <3>. QED
      BY <2>20, <3>1, <3>2, <3>3 DEF PostTurnedAway
  <2>21. ASSUME NEW r \in wire, CancelServed(r) PROVE TypeOK'
    <3>1. wire' \in SUBSET Request /\ reached' \in [Op -> Nat] /\ r.ids \in SUBSET Orders
      BY <2>21, ServingTyped DEF CancelServed
    <3>2. PICK cancelled \in SUBSET Orders, ended \in SUBSET Orders : Cancels(r, cancelled, ended)
      BY <2>21, <3>1 DEF CancelServed
    <3>3. Leave(cancelled) \in SweepType
      BY LeaveTyped
    <3>4. book' \in BookType
      BY <3>2 DEF Cancels, BookType
    <3>5. cancel' \in CallType
      <4>1. \/ cancel' = cancel
            \/ cancel' = [cancel EXCEPT !.pending = @ \ {r.ids}, !.some = TRUE,
                                        !.yes = @ \union cancelled \union ended]
        BY <3>2 DEF Cancels
      <4>2. [cancel EXCEPT !.pending = @ \ {r.ids}, !.some = TRUE,
                           !.yes = @ \union cancelled \union ended] \in CallType
        BY CancelTyped, Zenon
      <4>. QED
        BY <4>1, <4>2, Zenon
    <3>6. sweep' \in SweepType
      BY <3>1, <3>2, <3>3 DEF Cancels, SweepType
    <3>7. used' \in UsedType
      BY <3>2, UsedTyped DEF Cancels
    <3>. QED
      BY <2>21, <3>1, <3>4, <3>5, <3>6, <3>7 DEF CancelServed
  <2>22. ASSUME NEW r \in wire, CancelTurnedAway(r) PROVE TypeOK'
    <3>1. wire' \in SUBSET Request /\ reached' \in [Op -> Nat] /\ r.ids \in SUBSET Orders
      BY <2>22, ServingTyped DEF CancelTurnedAway
    <3>2. cancel' \in CallType /\ misread' \in SUBSET Orders
      BY <2>22, CallAlarmed, CancelFailedTyped DEF CancelTurnedAway, AwaitedByRepricer, Alarm
    <3>3. sweep' \in SweepType
      BY <2>22, NoCallTyped DEF CancelTurnedAway, SweepFails, SweepType, Alarm
    <3>4. used' \in UsedType
      BY <2>22, UsedTyped DEF CancelTurnedAway
    <3>. QED
      BY <2>22, <3>1, <3>2, <3>3, <3>4 DEF CancelTurnedAway
  <2>23. CASE UNCHANGED vars
    BY <2>23 DEF vars
  <2>. QED
    BY <2>1, <2>2, <2>3, <2>4, <2>5, <2>6, <2>7, <2>8, <2>9, <2>10, <2>11, <2>12, <2>13, <2>14, <2>15, <2>16, <2>17, <2>18, <2>19, <2>20, <2>21, <2>22, <2>23 DEF Next, Placer, Repricer, Sweeper, Callers, Venue
<1>. QED
  BY <1>1, <1>2, PTL DEF Spec

---------------------------------------------------------------------------
(* The refinement of OrderTracking.                                        *)

\* A placement on the wire names orders the venue has not seen, each once.
WireUnseen ==
  \A r \in wire : r.op = "post" =>
    \A o \in r.ids : book[o] = "none" /\ known[o] \in {"posting", "lost"}
WireApart ==
  \A r, t \in wire : r.op = "post" /\ t.op = "post" /\ r # t => r.ids \intersect t.ids = {}
\* What the owner knows agrees with what the venue has.
KnownAgrees ==
  \A o \in Orders : /\ known[o] = "new" => book[o] = "none"
                    /\ known[o] = "tracked" => book[o] # "none"
\* The answers of a placement so far.
PlaceAgrees ==
  /\ \A o \in place.ids : known[o] = "posting"
  /\ \A o \in place.yes : book[o] # "none"
  /\ \A o \in place.ids \ place.yes : (\A P \in place.pending : o \notin P) => book[o] = "gone"
\* The answers of a cancel so far.
CancelAgrees ==
  /\ \A o \in cancel.ids : known[o] = "tracked"
  /\ \A P \in cancel.pending : P \subseteq cancel.ids
  /\ cancel.yes \subseteq cancel.ids
  /\ \A o \in cancel.yes : book[o] = "gone" \/ o \in misread
\* What was listed was there.
FoundThere == \A o \in sweep.found : book[o] # "none"

TrackingInv ==
  WireUnseen /\ WireApart /\ KnownAgrees /\ PlaceAgrees /\ CancelAgrees /\ FoundThere

\* A step of the tracking specification.
TrackingStep ==
  \A o \in Orders : /\ Tracking!Moves(o, book'[o]) /\ Tracking!Learns(o, known'[o])
                    /\ (o \in misread => o \in misread')

USE DEF Tracking!Moves, Tracking!Learns, Tracking!Arrives, TrackingInv

\* The invariant is kept, and every step is one of the tracking specification.
LEMMA TrackingStepwise ==
  ASSUME TypeOK, TrackingInv, [Next]_vars
  PROVE  TrackingInv' /\ TrackingStep
<1>. USE DEF TypeOK, BookType, KnownType, WireUnseen, WireApart, KnownAgrees, PlaceAgrees, CancelAgrees,
             FoundThere, TrackingStep
<1>. DEFINE Goal == TrackingInv' /\ TrackingStep
<1>0. /\ place.ids \subseteq Orders /\ place.yes \subseteq Orders
      /\ cancel.ids \subseteq Orders /\ cancel.yes \subseteq Orders /\ sweep.found \subseteq Orders
      /\ \A r \in wire : r.ids \subseteq Orders
  BY DEF CallType, SweepType, Request
<1>1. CASE PlaceReturns
  BY <1>0, <1>1 DEF PlaceReturns, NoCall
<1>2. CASE PlaceTimesOut
  BY <1>0, <1>2 DEF PlaceTimesOut, PlaceFails, Learn, NoCall
<1>3. CASE PlaceSignals
  <2>1. CASE place' = [place EXCEPT !.alarm = "notify"] /\ UNCHANGED known
    BY <1>0, <1>3, <2>1 DEF PlaceSignals, CallType
  <2>2. CASE PlaceFails
    BY <1>0, <1>3, <2>2 DEF PlaceSignals, PlaceFails, Learn, NoCall
  <2>. QED
    BY <1>3, <2>1, <2>2 DEF PlaceSignals
<1>4. CASE CancelReturns
  BY <1>0, <1>4 DEF CancelReturns, Done, Learn, NoCall, CallType
<1>5. CASE CancelTimesOut
  BY <1>0, <1>5 DEF CancelTimesOut, CancelFailed, CallType
<1>6. CASE CancelSignals
  BY <1>0, <1>6 DEF CancelSignals, CallType
<1>7. CASE GetPage
  <2>0. UNCHANGED <<book, wire, place, cancel, misread>>
    BY <1>7 DEF GetPage
  <2>1. CASE SweepFails /\ UNCHANGED known
    BY <2>0, <2>1 DEF SweepFails, NoSweep
  <2>2. ASSUME NEW stuck \in BOOLEAN, AfterPage(sweep.found \union Page(sweep.cursor), stuck) PROVE Goal
    <3>. DEFINE found == sweep.found \union Page(sweep.cursor)
    <3>1. \A o \in found : o \in Orders /\ book[o] # "none"
      BY <1>0 DEF Page, Resting
    <3>. HIDE DEF found
    <3>2. CASE known' = known /\ sweep'.found \subseteq found
      BY <2>0, <3>1, <3>2
    <3>3. CASE Learn({o \in found : known[o] = "lost"}, "tracked") /\ sweep' = NoSweep
      BY <1>0, <2>0, <3>1, <3>3 DEF Learn, NoSweep
    <3>4. \/ known' = known /\ sweep'.found \subseteq found
          \/ Learn({o \in found : known[o] = "lost"}, "tracked") /\ sweep' = NoSweep
      <4>. DEFINE next == NextCursor(stuck)
      <4>1. CASE ~Ends(next)
        <5>1. /\ sweep' = [sweep EXCEPT !.found = found, !.stuck = stuck, !.cursor = next,
                                        !.spoilt = @ \/ stuck]
              /\ known' = known
          BY <2>2, <4>1 DEF AfterPage, found
        <5>2. sweep'.found = found
          BY <5>1 DEF SweepType
        <5>. QED
          BY <5>1, <5>2
      <4>2. CASE Ends(next) /\ sweep.goal = "cancel"
        <5>1. /\ sweep' = [sweep EXCEPT !.pc = "batches", !.spoilt = @ \/ stuck,
                                        !.rest = {o \in found : SideOf[o] = sweep.side}]
              /\ known' = known
          BY <2>2, <4>2 DEF AfterPage, SweepType, found
        <5>2. sweep'.found = sweep.found
          BY <5>1 DEF SweepType
        <5>. QED
          BY <5>1, <5>2 DEF found
      <4>3. CASE Ends(next) /\ sweep.goal = "reconcile"
        BY <2>2, <4>3 DEF AfterPage, found
      <4>. QED
        BY <4>1, <4>2, <4>3 DEF SweepType
    <3>. QED
      BY <3>2, <3>3, <3>4
  <2>. QED
    <3>1. sweep.stuck \in BOOLEAN
      BY DEF SweepType
    <3>2. \/ SweepFails /\ UNCHANGED known
          \/ \E stuck \in BOOLEAN : AfterPage(sweep.found \union Page(sweep.cursor), stuck)
      <4>1. (IF sweep.cursor = 0 /\ ~LastPage(0) THEN BOOLEAN ELSE {sweep.stuck}) \subseteq BOOLEAN
        BY <3>1
      <4>. QED
        BY <1>7, <4>1, Zenon DEF GetPage
    <3>. QED
      BY <2>1, <2>2, <3>2
<1>8. CASE CancelBatch
  BY <1>0, <1>8 DEF CancelBatch, Send, Requests, SweepType
<1>9. CASE BatchTimesOut
  BY <1>0, <1>9 DEF BatchTimesOut, SweepFails, NoSweep
<1>10. CASE SweepReturns
  BY <1>0, <1>10 DEF SweepReturns, NoSweep
<1>11. CASE SweepSignals
  BY <1>0, <1>11 DEF SweepSignals, SweepFails, NoSweep, SweepType
<1>12. CASE Supervise
  BY <1>0, <1>12 DEF Supervise
<1>13. ASSUME NEW batch \in SUBSET Orders, NEW n \in Nat, Posting(batch, n) PROVE Goal
  BY <1>0, <1>13, ChunksPartition DEF Posting, Send, Requests, Learn, NoCall
<1>14. CASE CancelForReprice
  BY <1>0, <1>14 DEF CancelForReprice, Send, Requests, NoCall
<1>15. CASE StartSweep
  BY <1>0, <1>15 DEF StartSweep, NoSweep
<1>16. CASE Fill
  BY <1>0, <1>16 DEF Fill, Leave, Resting, SweepType
<1>17. ASSUME NEW r \in wire, PostServed(r) PROVE Goal
  <2>1. PICK accepted \in SUBSET r.ids, rests \in SUBSET r.ids :
          /\ rests \subseteq accepted
          /\ book' = [o \in Orders |-> IF o \notin r.ids THEN book[o]
                                      ELSE IF o \in rests THEN "live" ELSE "gone"]
          /\ \/ place' = [place EXCEPT !.pending = @ \ {r.ids}, !.yes = @ \union accepted]
             \/ place' = place
    BY <1>17 DEF PostServed
  <2>2. /\ r.op = "post" /\ wire' = wire \ {r}
        /\ UNCHANGED <<known, cancel, sweep, misread>>
    BY <1>17 DEF PostServed, Serving
  <2>3. place'.ids = place.ids /\ place'.yes \in {place.yes, place.yes \union accepted}
    <3>1. CASE place' = place
      BY <3>1
    <3>2. CASE place' = [place EXCEPT !.pending = @ \ {r.ids}, !.yes = @ \union accepted]
      BY <3>2 DEF CallType
    <3>. QED
      BY <2>1, <3>1, <3>2
  <2>4. \A o \in r.ids : book[o] = "none" /\ known[o] \in {"posting", "lost"} /\ o \in Orders
    BY <1>0, <2>2
  <2>5. \A o \in Orders : book'[o] = IF o \notin r.ids THEN book[o]
                                     ELSE IF o \in rests THEN "live" ELSE "gone"
    BY <2>1
  <2>6. WireUnseen' /\ WireApart'
    BY <1>0, <2>2, <2>5
  <2>7. KnownAgrees' /\ CancelAgrees' /\ FoundThere'
    BY <1>0, <2>2, <2>4, <2>5
  <2>8. PlaceAgrees'
    <3>1. CASE place' = place
      BY <1>0, <2>2, <2>4, <2>5, <3>1
    <3>2. CASE place' = [place EXCEPT !.pending = @ \ {r.ids}, !.yes = @ \union accepted]
      <4>1. place'.pending = place.pending \ {r.ids} /\ place'.yes = place.yes \union accepted
        BY <3>2 DEF CallType
      <4>2. \A o \in place.yes \union accepted : book'[o] # "none"
        BY <1>0, <2>4, <2>5
      <4>3. ASSUME NEW o \in place.ids \ (place.yes \union accepted),
                   \A P \in place.pending \ {r.ids} : o \notin P
            PROVE  book'[o] = "gone"
        <5>1. CASE o \in r.ids
          BY <1>0, <2>1, <2>5, <4>3, <5>1
        <5>2. CASE o \notin r.ids
          BY <1>0, <2>5, <4>3, <5>2
        <5>. QED
          BY <5>1, <5>2
      <4>. QED
        BY <2>2, <2>3, <4>1, <4>2, <4>3
    <3>. QED
      BY <2>1, <3>1, <3>2
  <2>9. TrackingStep
    BY <2>2, <2>4, <2>5
  <2>. QED
    BY <2>6, <2>7, <2>8, <2>9
<1>18. ASSUME NEW r \in wire, PostServedShort(r) PROVE Goal
  BY <1>0, <1>18 DEF PostServedShort, Serving, ShortAnswer, PlaceFails, Learn, NoCall
<1>19. ASSUME NEW r \in wire, PostTurnedAway(r) PROVE Goal
  BY <1>0, <1>19 DEF PostTurnedAway, Serving, PlaceFails, Learn, NoCall, CallType
<1>20. ASSUME NEW r \in wire, CancelServed(r) PROVE Goal
  <2>1. PICK cancelled \in SUBSET (r.ids \intersect Resting), ended \in SUBSET (r.ids \ Resting) :
          Cancels(r, cancelled, ended)
    BY <1>20 DEF CancelServed
  <2>2. wire' \subseteq wire /\ UNCHANGED <<known, place, misread>>
    BY <1>20 DEF CancelServed, Serving
  <2>3. \A o \in Orders : book'[o] = IF o \in cancelled THEN "gone" ELSE book[o]
    BY <2>1 DEF Cancels
  <2>4. \A o \in cancelled : o \in Orders /\ book[o] = "live"
    BY DEF Resting
  <2>5. sweep'.found = sweep.found
    BY <2>1 DEF Cancels, Leave, SweepType
  <2>6. \/ cancel' = cancel
        \/ /\ r.ids \in cancel.pending
           /\ cancel' = [cancel EXCEPT !.pending = @ \ {r.ids}, !.some = TRUE,
                                       !.yes = @ \union cancelled \union ended]
    BY <2>1 DEF Cancels, AwaitedByRepricer
  <2>7. WireUnseen' /\ WireApart' /\ KnownAgrees' /\ PlaceAgrees' /\ FoundThere' /\ TrackingStep
    BY <1>0, <2>2, <2>3, <2>4, <2>5
  <2>8. CASE cancel' = cancel
    BY <1>0, <2>2, <2>3, <2>7, <2>8
  <2>9. CASE /\ r.ids \in cancel.pending
             /\ cancel' = [cancel EXCEPT !.pending = @ \ {r.ids}, !.some = TRUE,
                                         !.yes = @ \union cancelled \union ended]
    <3>1. /\ cancel'.ids = cancel.ids /\ cancel'.pending = cancel.pending \ {r.ids}
          /\ cancel'.yes = cancel.yes \union cancelled \union ended
      BY <2>9 DEF CallType
    <3>2. \A o \in r.ids : o \in cancel.ids /\ o \in Orders /\ book[o] # "none"
      BY <1>0, <2>9
    <3>3. \A o \in ended : o \in r.ids /\ book[o] = "gone"
      BY <3>2 DEF Resting
    <3>4. \A o \in cancelled \union ended : o \in cancel.ids /\ book'[o] = "gone"
      BY <2>3, <2>4, <3>2, <3>3
    <3>5. CancelAgrees'
      BY <1>0, <2>2, <2>3, <3>1, <3>4
    <3>. QED
      BY <2>7, <3>5
  <2>. QED
    BY <2>6, <2>8, <2>9
<1>21. ASSUME NEW r \in wire, CancelTurnedAway(r) PROVE Goal
  <2>1. wire' \subseteq wire /\ UNCHANGED <<book, known, place>>
    BY <1>21 DEF CancelTurnedAway, Serving
  <2>2. sweep'.found \subseteq sweep.found /\ misread \subseteq misread'
    <3>1. sweep'.found \subseteq sweep.found
      BY <1>21 DEF CancelTurnedAway, SweepFails, NoSweep, SweepType
    <3>2. misread \subseteq misread'
      BY <1>21 DEF CancelTurnedAway, CancelFailed
    <3>. QED
      BY <3>1, <3>2
  <2>3. /\ cancel'.ids = cancel.ids /\ cancel'.pending \subseteq cancel.pending
        /\ \/ cancel'.yes = cancel.yes
           \/ /\ r.ids \in cancel.pending /\ cancel'.yes \subseteq cancel.yes \union r.ids
              /\ \A o \in cancel'.yes : o \in cancel.yes \/ o \in misread'
    <3>1. CASE cancel' = cancel
      BY <3>1
    <3>2. CASE r.ids \in cancel.pending /\ cancel' = [cancel EXCEPT !.pending = @ \ {r.ids}, !.alarm = "store"]
      BY <3>2 DEF CallType
    <3>3. ASSUME NEW t, r.ids \in cancel.pending, CancelFailed(r.ids, t)
          PROVE  /\ cancel'.ids = cancel.ids /\ cancel'.pending \subseteq cancel.pending
                 /\ cancel'.yes \subseteq cancel.yes \union r.ids
                 /\ \A o \in cancel'.yes : o \in cancel.yes \/ o \in misread'
      BY <3>3 DEF CancelFailed, CallType
    <3>. QED
      BY <1>21, <3>1, <3>2, <3>3 DEF CancelTurnedAway, AwaitedByRepricer
  <2>. QED
    BY <1>0, <2>1, <2>2, <2>3
<1>22. CASE UNCHANGED vars
  BY <1>0, <1>22 DEF vars
<1>30. ASSUME PlaceResting \/ PostOne PROVE Goal
  <2>1. PICK batch \in SUBSET Orders, n \in Nat : Posting(batch, n)
    <3>1. \A k \in Nat : Max1(k) \in Nat
      BY DEF Max1
    <3>2. \A o \in Orders : {o} \in SUBSET Orders
      OBVIOUS
    <3>. QED
      BY <1>30, <3>1, <3>2, PosterAssumption DEF PlaceResting, PostOne
  <2>. QED
    BY <1>13, <2>1
<1>. QED
  BY <1>30, <1>1, <1>2, <1>3, <1>4, <1>5, <1>6, <1>7, <1>8, <1>9, <1>10, <1>11, <1>12, <1>13, <1>14, <1>15, <1>16, <1>17, <1>18, <1>19, <1>20, <1>21, <1>22 DEF Next, Placer, Repricer, Sweeper, Callers, Venue

\* For any orders, sides, chunk and page sizes and any faults and calls, the write
\* path implements OrderTracking: no order rests outside its owner's knowledge
\* after a call that returned Ok.
THEOREM RefinesTracking == Spec => ImplementsOrderTracking
<1>1. Init => Tracking!Init /\ TrackingInv
  BY DEF Init, Tracking!Init, WireUnseen, WireApart, KnownAgrees, PlaceAgrees, CancelAgrees, FoundThere,
         NoCall, NoSweep
<1>2. TypeOK /\ TrackingInv /\ [Next]_vars => TrackingInv' /\ [Tracking!Next]_<<book, known, misread>>
  BY TrackingStepwise DEF TrackingStep, Tracking!Next
<1>. QED
  BY <1>1, <1>2, TypeCorrect, PTL DEF Spec, ImplementsOrderTracking, Tracking!Spec

---------------------------------------------------------------------------
(* The rate-limit signal.                                                  *)

\* A 429 is being signalled only within a call, and an answer is awaited only
\* within one.
AlarmsInCalls ==
  /\ place.alarm # "no" \/ place.pending # {} => place.ids # {}
  /\ cancel.alarm # "no" \/ cancel.pending # {} => cancel.ids # {}
  /\ sweep.alarm # "no" => sweep.pc = "batches"
Notifying == \E c \in {place, cancel, sweep} : c.alarm = "notify"
\* Once there was a 429 the stored endpoint is the latest; before it nothing stirs.
StoredIsLatest ==
  IF rate.latest = "none"
    THEN ~rate.permit /\ ~sup.awake /\ ~Notifying /\ sup.seen = "none"
    ELSE rate.endpoint = rate.latest
SignalInv == AlarmsInCalls /\ StoredIsLatest /\ WakeNamesLatest

\* A step that starts or ends no signalling keeps the signal's invariant.
LEMMA UnsignalledStep ==
  ASSUME SignalInv, UNCHANGED <<rate, sup>>, Notifying' = Notifying
  PROVE  StoredIsLatest' /\ WakeNamesLatest'
BY DEF SignalInv, StoredIsLatest, WakeNamesLatest, Quiet, Notifying

\* So does a step that stores the endpoint and has yet to wake.
LEMMA StoredStep ==
  ASSUME TypeOK, NEW e \in {"place", "cancel"}, Store(e), Notifying'
  PROVE  StoredIsLatest' /\ WakeNamesLatest'
BY DEF TypeOK, RateType, Store, StoredIsLatest, WakeNamesLatest, Quiet, Notifying

\* So does a step that leaves the permit.
LEMMA NotifiedStep ==
  ASSUME TypeOK, SignalInv, Notifying, Notify
  PROVE  StoredIsLatest' /\ WakeNamesLatest'
BY DEF TypeOK, RateType, Notify, SignalInv, StoredIsLatest, WakeNamesLatest, Quiet

\* The invariant of the signal is inductive.
LEMMA SignalStepwise ==
  ASSUME TypeOK, SignalInv, [Next]_vars
  PROVE  SignalInv'
<1>. DEFINE Kept == AlarmsInCalls' /\ Notifying' = Notifying /\ UNCHANGED <<rate, sup>>
<1>0. Kept => SignalInv'
  BY UnsignalledStep DEF SignalInv
<1>. USE DEF TypeOK, SignalInv, AlarmsInCalls, Notifying
<1>1. CASE PlaceReturns
  <2>1. Kept
    BY <1>1 DEF PlaceReturns, NoCall
  <2>. QED
    BY <1>0, <2>1
<1>2. CASE PlaceTimesOut
  <2>1. Kept
    BY <1>2 DEF PlaceTimesOut, PlaceFails, NoCall
  <2>. QED
    BY <1>0, <2>1
<1>3. CASE CancelReturns
  <2>1. Kept
    BY <1>3 DEF CancelReturns, NoCall
  <2>. QED
    BY <1>0, <2>1
<1>4. CASE CancelTimesOut
  <2>1. Kept
    BY <1>4 DEF CancelTimesOut, CancelFailed, CallType
  <2>. QED
    BY <1>0, <2>1
<1>5. CASE GetPage
  <2>0. sweep.pc = "paging" /\ UNCHANGED <<place, cancel, rate, sup>>
    BY <1>5 DEF GetPage
  <2>1. SweepFails => sweep'.alarm = "no"
    BY DEF SweepFails, NoSweep
  <2>2. ASSUME NEW found, NEW stuck, AfterPage(found, stuck) PROVE sweep'.alarm = "no"
    <3>1. CASE ~Ends(NextCursor(stuck))
      BY <2>0, <2>2, <3>1 DEF AfterPage, SweepType
    <3>2. CASE Ends(NextCursor(stuck)) /\ sweep.goal = "cancel"
      <4>1. sweep' = [sweep EXCEPT !.pc = "batches", !.spoilt = @ \/ stuck,
                                   !.rest = {o \in found : SideOf[o] = sweep.side}]
        BY <2>2, <3>2 DEF AfterPage, SweepType
      <4>. QED
        BY <2>0, <4>1 DEF SweepType
    <3>3. CASE Ends(NextCursor(stuck)) /\ sweep.goal = "reconcile"
      BY <2>2, <3>3 DEF AfterPage, NoSweep
    <3>. QED
      BY <3>1, <3>2, <3>3 DEF SweepType
  <2>3. SweepFails \/ \E found, stuck : AfterPage(found, stuck)
    BY <1>5, Zenon DEF GetPage
  <2>4. sweep'.alarm = "no"
    BY <2>1, <2>2, <2>3
  <2>. QED
    BY <1>0, <2>0, <2>4
<1>6. CASE CancelBatch
  <2>1. Kept
    BY <1>6 DEF CancelBatch, SweepType
  <2>. QED
    BY <1>0, <2>1
<1>7. CASE BatchTimesOut
  <2>1. Kept
    BY <1>7 DEF BatchTimesOut, SweepFails, NoSweep
  <2>. QED
    BY <1>0, <2>1
<1>8. CASE SweepReturns
  <2>1. Kept
    BY <1>8 DEF SweepReturns, SideCancelled, NoSweep
  <2>. QED
    BY <1>0, <2>1
<1>9. CASE CancelForReprice
  <2>0. PICK ids \in (SUBSET {o \in Orders : known[o] = "tracked"}) \ {{}} :
          cancel' = [NoCall EXCEPT !.ids = ids,
                                   !.pending = IF singly THEN {{o} : o \in ids} ELSE {ids}]
    BY <1>9, Zenon DEF CancelForReprice
  <2>1. Kept
    <3>1. cancel'.ids # {} /\ cancel'.alarm = "no" /\ cancel.alarm = "no"
      <4>1. ids # {}
        OBVIOUS
      <4>2. cancel.alarm = "no"
        BY <1>9, Zenon DEF CancelForReprice, Calling
      <4>. QED
        BY <2>0, <4>1, <4>2 DEF NoCall
    <3>. QED
      BY <1>9, <3>1 DEF CancelForReprice
  <2>. QED
    BY <1>0, <2>1
<1>10. CASE StartSweep
  <2>1. Kept
    BY <1>10 DEF StartSweep, NoSweep, SweepType
  <2>. QED
    BY <1>0, <2>1
<1>11. CASE Fill
  <2>1. Kept
    BY <1>11 DEF Fill, Leave, SweepType
  <2>. QED
    BY <1>0, <2>1
<1>12. ASSUME NEW batch \in SUBSET Orders, NEW n \in Nat, Posting(batch, n) PROVE SignalInv'
  <2>1. Kept
    BY <1>12 DEF Posting, NoCall, Calling
  <2>. QED
    BY <1>0, <2>1
<1>30. ASSUME PlaceResting \/ PostOne PROVE SignalInv'
  <2>1. PICK batch \in SUBSET Orders, n \in Nat : Posting(batch, n)
    <3>1. \A k \in Nat : Max1(k) \in Nat
      BY DEF Max1
    <3>2. \A o \in Orders : {o} \in SUBSET Orders
      OBVIOUS
    <3>. QED
      BY <1>30, <3>1, <3>2, PosterAssumption DEF PlaceResting, PostOne
  <2>. QED
    BY <1>12, <2>1
<1>13. ASSUME NEW r \in wire, PostServed(r) PROVE SignalInv'
  <2>0. UNCHANGED <<cancel, sweep, rate, sup>>
    BY <1>13 DEF PostServed
  <2>1. CASE place' = place
    BY <1>0, <2>0, <2>1
  <2>2. ASSUME NEW accepted, place' = [place EXCEPT !.pending = @ \ {r.ids}, !.yes = @ \union accepted]
        PROVE  Kept
    <3>1. place'.ids = place.ids /\ place'.alarm = place.alarm /\ place'.pending \subseteq place.pending
      BY <2>2 DEF CallType
    <3>. QED
      BY <2>0, <3>1
  <2>3. \/ place' = place
        \/ \E accepted : place' = [place EXCEPT !.pending = @ \ {r.ids}, !.yes = @ \union accepted]
    BY <1>13, Zenon DEF PostServed
  <2>. QED
    BY <1>0, <2>1, <2>2, <2>3
<1>14. ASSUME NEW r \in wire, PostServedShort(r) PROVE SignalInv'
  <2>1. Kept
    BY <1>14 DEF PostServedShort, ShortAnswer, PlaceFails, AwaitedByPlacer, NoCall
  <2>. QED
    BY <1>0, <2>1
<1>15. ASSUME NEW r \in wire, PostTurnedAway(r) PROVE SignalInv'
  <2>1. Kept
    BY <1>15 DEF PostTurnedAway, PlaceFails, AwaitedByPlacer, NoCall, CallType
  <2>. QED
    BY <1>0, <2>1
<1>16. ASSUME NEW r \in wire, CancelServed(r) PROVE SignalInv'
  <2>1. UNCHANGED <<place, rate, sup>>
    BY <1>16 DEF CancelServed
  <2>2. cancel'.alarm = cancel.alarm /\ cancel'.ids = cancel.ids /\ cancel'.pending \subseteq cancel.pending
    <3>1. CASE cancel' = cancel
      BY <3>1
    <3>2. ASSUME NEW yes, cancel' = [cancel EXCEPT !.pending = @ \ {r.ids}, !.some = TRUE, !.yes = yes]
          PROVE  cancel'.alarm = cancel.alarm /\ cancel'.ids = cancel.ids /\ cancel'.pending \subseteq cancel.pending
      BY <3>2 DEF CallType
    <3>3. \/ cancel' = cancel
          \/ \E yes : cancel' = [cancel EXCEPT !.pending = @ \ {r.ids}, !.some = TRUE, !.yes = yes]
      BY <1>16, Zenon DEF CancelServed, Cancels
    <3>. QED
      BY <3>1, <3>2, <3>3
  <2>3. sweep'.alarm = sweep.alarm /\ sweep'.pc = sweep.pc
    BY <1>16 DEF CancelServed, Cancels, Leave, SweepType
  <2>4. Kept
    BY <2>1, <2>2, <2>3
  <2>. QED
    BY <1>0, <2>4
<1>17. ASSUME NEW r \in wire, CancelTurnedAway(r) PROVE SignalInv'
  <2>0. UNCHANGED <<place, rate, sup>>
    BY <1>17 DEF CancelTurnedAway
  <2>1. Kept
    <3>1. CASE UNCHANGED sweep /\ AwaitedByRepricer(r) /\ \E t \in BOOLEAN : CancelFailed(r.ids, t)
      BY <2>0, <3>1 DEF AwaitedByRepricer, CancelFailed, CallType
    <3>2. CASE /\ UNCHANGED sweep /\ AwaitedByRepricer(r)
               /\ cancel' = [cancel EXCEPT !.pending = @ \ {r.ids}, !.alarm = "store"]
      BY <2>0, <3>2 DEF AwaitedByRepricer, CallType
    <3>3. CASE AwaitedBySweeper(r) /\ UNCHANGED cancel /\ SweepFails
      BY <2>0, <3>3 DEF AwaitedBySweeper, SweepFails, NoSweep
    <3>4. CASE AwaitedBySweeper(r) /\ UNCHANGED cancel /\ sweep' = [sweep EXCEPT !.alarm = "store"]
      BY <2>0, <3>4 DEF AwaitedBySweeper, SweepType
    <3>. QED
      BY <1>17, <3>1, <3>2, <3>3, <3>4 DEF CancelTurnedAway
  <2>. QED
    BY <1>0, <2>1
<1>18. CASE PlaceSignals
  <2>1. CASE place.alarm = "store"
    <3>1. /\ Store("place") /\ place' = [place EXCEPT !.alarm = "notify"]
          /\ UNCHANGED <<cancel, sweep, sup>>
      BY <1>18, <2>1 DEF PlaceSignals, Signals
    <3>2. Notifying' /\ AlarmsInCalls'
      BY <2>1, <3>1 DEF CallType, SweepType
    <3>. QED
      BY <3>1, <3>2, StoredStep
  <2>2. CASE place.alarm = "notify"
    <3>1. Notify /\ UNCHANGED <<cancel, sweep, sup>>
      BY <1>18, <2>2 DEF PlaceSignals, Signals
    <3>2. AlarmsInCalls'
      BY <1>18, <2>2, <3>1 DEF PlaceSignals, PlaceFails, NoCall, CallType, Alarm
    <3>. QED
      BY <2>2, <3>1, <3>2, NotifiedStep
  <2>. QED
    BY <1>18, <2>1, <2>2 DEF PlaceSignals
<1>19. CASE CancelSignals
  <2>1. CASE cancel.alarm = "store"
    <3>1. /\ Store("cancel") /\ cancel' = [cancel EXCEPT !.alarm = "notify"]
          /\ UNCHANGED <<place, sweep, sup>>
      BY <1>19, <2>1 DEF CancelSignals, Signals
    <3>2. Notifying' /\ AlarmsInCalls'
      BY <2>1, <3>1 DEF CallType, SweepType
    <3>. QED
      BY <3>1, <3>2, StoredStep
  <2>2. CASE cancel.alarm = "notify"
    <3>1. Notify /\ UNCHANGED <<place, sweep, sup>>
      BY <1>19, <2>2 DEF CancelSignals, Signals
    <3>2. AlarmsInCalls'
      BY <1>19, <2>2, <3>1 DEF CancelSignals, CallType, Alarm
    <3>. QED
      BY <2>2, <3>1, <3>2, NotifiedStep
  <2>. QED
    BY <1>19, <2>1, <2>2 DEF CancelSignals
<1>20. CASE SweepSignals
  <2>1. CASE sweep.alarm = "store"
    <3>1. /\ Store("cancel") /\ sweep' = [sweep EXCEPT !.alarm = "notify"]
          /\ UNCHANGED <<place, cancel, sup>>
      BY <1>20, <2>1 DEF SweepSignals, Signals
    <3>2. Notifying' /\ AlarmsInCalls'
      BY <2>1, <3>1 DEF CallType, SweepType
    <3>. QED
      BY <3>1, <3>2, StoredStep
  <2>2. CASE sweep.alarm = "notify"
    <3>1. Notify /\ UNCHANGED <<place, cancel, sup>>
      BY <1>20, <2>2 DEF SweepSignals, Signals
    <3>2. AlarmsInCalls'
      BY <1>20, <2>2, <3>1 DEF SweepSignals, SweepFails, NoSweep, SweepType, Alarm
    <3>. QED
      BY <2>2, <3>1, <3>2, NotifiedStep
  <2>. QED
    BY <1>20, <2>1, <2>2 DEF SweepSignals
<1>21. CASE Supervise
  <2>1. AlarmsInCalls' /\ Notifying' = Notifying
    BY <1>21 DEF Supervise
  <2>2. StoredIsLatest' /\ WakeNamesLatest'
    BY <1>21, <2>1 DEF Supervise, StoredIsLatest, WakeNamesLatest, Quiet, RateType, SupType
  <2>. QED
    BY <2>1, <2>2
<1>22. CASE UNCHANGED vars
  <2>1. Kept
    BY <1>22 DEF vars
  <2>. QED
    BY <1>0, <2>1
<1>. QED
  BY <1>1, <1>2, <1>3, <1>4, <1>5, <1>6, <1>7, <1>8, <1>9, <1>10, <1>11, <1>30, <1>13, <1>14, <1>15, <1>16, <1>17, <1>18, <1>19, <1>20, <1>21, <1>22 DEF Next, Placer, Repricer, Sweeper, Callers, Venue

\* However the 429s of the three calls and the supervisor's wake-ups interleave,
\* a supervisor that has caught up has read the endpoint of the latest 429.
THEOREM WakesNameLatest == Spec => []WakeNamesLatest
<1>1. Init => SignalInv
  BY DEF Init, SignalInv, AlarmsInCalls, StoredIsLatest, WakeNamesLatest, Quiet, Notifying, NoCall, NoSweep
<1>2. TypeOK /\ SignalInv /\ [Next]_vars => SignalInv'
  BY SignalStepwise
<1>3. SignalInv => WakeNamesLatest
  BY DEF SignalInv
<1>. QED
  BY <1>1, <1>2, <1>3, TypeCorrect, PTL DEF Spec

---------------------------------------------------------------------------
(* The counters.                                                           *)

OnWire(op) == {r \in wire : r.op = op}
\* What is on the wire was counted and is not served yet.
WireCounted ==
  /\ IsFiniteSet(wire)
  /\ \A op \in Op : Cardinality(OnWire(op)) + reached[op] <= counted[op]

\* A subset of the wire is finite.
LEMMA OnWireFinite ==
  ASSUME IsFiniteSet(wire), NEW op
  PROVE  IsFiniteSet(OnWire(op)) /\ Cardinality(OnWire(op)) \in Nat
<1>1. OnWire(op) \in SUBSET wire
  BY DEF OnWire
<1>. QED
  BY <1>1, FS_Subset, FS_CardinalityType

\* There are no more requests than chunks.
LEMMA RequestsBounded ==
  ASSUME NEW op, NEW from, NEW chunks, IsFiniteSet(chunks)
  PROVE  /\ IsFiniteSet(Requests(op, chunks, from))
         /\ Cardinality(Requests(op, chunks, from)) \in Nat
         /\ Cardinality(chunks) \in Nat
         /\ Cardinality(Requests(op, chunks, from)) <= Cardinality(chunks)
<1>. DEFINE f == [c \in chunks |-> [op |-> op, ids |-> c, from |-> from]]
<1>1. f \in Surjection(chunks, Requests(op, chunks, from))
  BY DEF Requests, Surjection
<1>. QED
  BY <1>1, FS_Surjection, FS_CardinalityType

\* Sending counts at least what it puts on the wire.
LEMMA SendCounts ==
  ASSUME TypeOK, WireCounted, NEW op \in Op, NEW from, NEW chunks, IsFiniteSet(chunks),
         Send(op, chunks, from), UNCHANGED reached
  PROVE  WireCounted'
<1>. DEFINE sent == Requests(op, chunks, from)
<1>1. /\ IsFiniteSet(sent) /\ Cardinality(sent) \in Nat /\ Cardinality(chunks) \in Nat
      /\ Cardinality(sent) <= Cardinality(chunks)
  BY RequestsBounded
<1>2. IsFiniteSet(wire')
  BY <1>1, FS_Union DEF Send, WireCounted
<1>3. counted \in [Op -> Nat] /\ reached \in [Op -> Nat]
  BY DEF TypeOK
<1>4. ASSUME NEW p \in Op PROVE Cardinality(OnWire(p)') + reached'[p] <= counted'[p]
  <2>1. IsFiniteSet(OnWire(p)) /\ Cardinality(OnWire(p)) \in Nat
    BY OnWireFinite DEF WireCounted
  <2>2. Cardinality(OnWire(p)) + reached[p] <= counted[p]
    BY DEF WireCounted
  <2>3. CASE p = op
    <3>1. OnWire(p)' = OnWire(p) \union sent
      BY <2>3 DEF OnWire, Send, Requests
    <3>2. OnWire(p) \intersect sent \in SUBSET sent
      OBVIOUS
    <3>3. IsFiniteSet(OnWire(p) \intersect sent) /\ Cardinality(OnWire(p) \intersect sent) \in Nat
      BY <1>1, <3>2, FS_Subset, FS_CardinalityType
    <3>4. Cardinality(OnWire(p) \union sent)
            = Cardinality(OnWire(p)) + Cardinality(sent) - Cardinality(OnWire(p) \intersect sent)
      BY <1>1, <2>1, FS_Union
    <3>. HIDE DEF sent
    <3>5. counted'[p] = counted[p] + Cardinality(chunks)
      BY <1>3, <2>3 DEF Send
    <3>6. counted[p] \in Nat /\ reached[p] \in Nat
      BY <1>3
    <3>7. Cardinality(OnWire(p)') <= Cardinality(OnWire(p)) + Cardinality(sent)
      BY <1>1, <2>1, <3>1, <3>3, <3>4
    <3>8. Cardinality(OnWire(p)') \in Nat
      BY <1>1, <2>1, <3>1, FS_Union, FS_CardinalityType
    <3>. QED
      BY <1>1, <2>1, <2>2, <3>5, <3>6, <3>7, <3>8
  <2>4. CASE p # op
    <3>1. OnWire(p)' = OnWire(p)
      BY <2>4 DEF OnWire, Send, Requests
    <3>2. counted'[p] = counted[p]
      BY <1>3, <2>4 DEF Send
    <3>. QED
      BY <2>2, <3>1, <3>2
  <2>. QED
    BY <2>3, <2>4
<1>. QED
  BY <1>2, <1>4 DEF WireCounted

\* A served request leaves the wire for the venue.
LEMMA ServingCounts ==
  ASSUME TypeOK, WireCounted, NEW r \in wire, Serving(r), UNCHANGED counted
  PROVE  WireCounted'
<1>1. IsFiniteSet(wire')
  BY FS_RemoveElement DEF Serving, WireCounted
<1>2. /\ counted \in [Op -> Nat] /\ reached \in [Op -> Nat] /\ r.op \in Op
  BY DEF TypeOK, Request
<1>3. ASSUME NEW p \in Op PROVE Cardinality(OnWire(p)') + reached'[p] <= counted'[p]
  <2>1. IsFiniteSet(OnWire(p)) /\ Cardinality(OnWire(p)) \in Nat
    BY OnWireFinite DEF WireCounted
  <2>2. /\ Cardinality(OnWire(p)) + reached[p] <= counted[p]
        /\ counted[p] \in Nat /\ reached[p] \in Nat
    BY <1>2 DEF WireCounted
  <2>3. OnWire(p)' = OnWire(p) \ {r}
    BY DEF OnWire, Serving
  <2>4. CASE p = r.op
    <3>1. Cardinality(OnWire(p)') = Cardinality(OnWire(p)) - 1
      <4>1. r \in OnWire(p)
        BY <2>4 DEF OnWire
      <4>. QED
        BY <2>1, <2>3, <4>1, FS_RemoveElement
    <3>2. reached'[p] = reached[p] + 1
      BY <1>2, <2>4 DEF Serving
    <3>. QED
      BY <2>1, <2>2, <3>1, <3>2
  <2>5. CASE p # r.op
    <3>1. OnWire(p)' = OnWire(p)
      BY <2>3, <2>5 DEF OnWire
    <3>2. reached'[p] = reached[p]
      BY <1>2, <2>5 DEF Serving
    <3>. QED
      BY <2>2, <3>1, <3>2
  <2>. QED
    BY <2>4, <2>5
<1>. QED
  BY <1>1, <1>3 DEF WireCounted

\* What was counted covers what was sent, in every step.
LEMMA CountedStepwise ==
  ASSUME TypeOK, WireCounted, [Next]_vars
  PROVE  WireCounted'
<1>0. UNCHANGED <<wire, counted, reached>> => WireCounted'
  BY DEF WireCounted, OnWire
<1>1. CASE Placer \/ StartSweep \/ Supervise \/ Fill \/ Repricer
  BY <1>0, <1>1 DEF Placer, PlaceReturns, PlaceTimesOut, PlaceSignals, StartSweep, Supervise, Fill,
                    Repricer, CancelReturns, CancelTimesOut, CancelSignals
<1>2. CASE GetPage \/ BatchTimesOut \/ SweepReturns \/ SweepSignals \/ UNCHANGED vars
  BY <1>0, <1>2 DEF GetPage, BatchTimesOut, SweepReturns, SweepSignals, vars
<1>3. CASE CancelBatch
  <2>. DEFINE chunk == FirstChunk(sweep.rest, CancelChunk)
  <2>1. IsFiniteSet({chunk})
    BY FS_Singleton
  <2>2. Send("orders", {chunk}, "sweep") /\ UNCHANGED reached
    BY <1>3 DEF CancelBatch
  <2>. QED
    BY <2>1, <2>2, SendCounts DEF Op
<1>4. ASSUME NEW batch \in SUBSET Orders, NEW n \in Nat, Posting(batch, n) PROVE WireCounted'
  <2>1. IsFiniteSet(Chunks(batch, n))
    BY ChunksFinite
  <2>2. Send("post", Chunks(batch, n), "place") /\ UNCHANGED reached
    BY <1>4 DEF Posting
  <2>. QED
    BY <2>1, <2>2, SendCounts DEF Op
<1>5. CASE PlaceResting \/ PostOne
  <2>1. PICK batch \in SUBSET Orders, n \in Nat : Posting(batch, n)
    <3>1. \A k \in Nat : Max1(k) \in Nat
      BY DEF Max1
    <3>2. \A o \in Orders : {o} \in SUBSET Orders
      OBVIOUS
    <3>. QED
      BY <1>5, <3>1, <3>2, PosterAssumption DEF PlaceResting, PostOne
  <2>. QED
    BY <1>4, <2>1
<1>6. CASE CancelForReprice
  <2>1. PICK ids \in SUBSET Orders :
          Send(IF singly THEN "order" ELSE "orders", IF singly THEN {{o} : o \in ids} ELSE {ids}, "cancel")
    BY <1>6, Zenon DEF CancelForReprice
  <2>2. IsFiniteSet(IF singly THEN {{o} : o \in ids} ELSE {ids})
    BY SingletonsFinite, FS_Singleton
  <2>3. (IF singly THEN "order" ELSE "orders") \in Op /\ UNCHANGED reached
    BY <1>6 DEF CancelForReprice, Op
  <2>. QED
    BY <2>1, <2>2, <2>3, SendCounts
<1>7. ASSUME NEW r \in wire, \/ PostServed(r) \/ PostServedShort(r) \/ PostTurnedAway(r)
                             \/ CancelServed(r) \/ CancelTurnedAway(r)
      PROVE  WireCounted'
  <2>1. Serving(r) /\ UNCHANGED counted
    BY <1>7 DEF PostServed, PostServedShort, PostTurnedAway, CancelServed, CancelTurnedAway
  <2>. QED
    BY <2>1, ServingCounts
<1>. QED
  BY <1>1, <1>2, <1>3, <1>5, <1>6, <1>7 DEF Next, Sweeper, Callers, Venue

\* Whatever is dropped, timed out, lost or refused, the counters cover every request
\* the venue served.
THEOREM CountersCover == Spec => []CountersCoverWire
<1>1. Init => WireCounted
  <2>. SUFFICES ASSUME Init PROVE WireCounted
    OBVIOUS
  <2>1. IsFiniteSet(wire) /\ \A op \in Op : OnWire(op) = {}
    BY FS_EmptySet DEF Init, OnWire
  <2>. QED
    BY <2>1, FS_EmptySet DEF Init, WireCounted
<1>2. TypeOK /\ WireCounted /\ [Next]_vars => WireCounted'
  BY CountedStepwise
<1>3. TypeOK /\ WireCounted => CountersCoverWire
  <2>. SUFFICES ASSUME TypeOK, WireCounted, NEW op \in Op PROVE reached[op] <= counted[op]
    BY DEF CountersCoverWire
  <2>1. Cardinality(OnWire(op)) \in Nat /\ reached[op] \in Nat /\ counted[op] \in Nat
    BY OnWireFinite DEF WireCounted, TypeOK
  <2>2. Cardinality(OnWire(op)) + reached[op] <= counted[op]
    BY DEF WireCounted
  <2>. QED
    BY <2>1, <2>2
<1>. QED
  BY <1>1, <1>2, <1>3, TypeCorrect, PTL DEF Spec

---------------------------------------------------------------------------
(* An Ok of cancel_orders_by_side covers the side, for every set of        *)
(* orders, page and chunk size, and whatever the other callers, the venue  *)
(* and the fills do meanwhile.                                             *)

\* Where an order resting when the call began may be: gone, in a page read, or
\* still listed at or behind the cursor.
Ahead(o) == o \in Resting /\ Rank(Resting, o) >= sweep.cursor
PagedSoFar ==
  sweep.pc = "paging" /\ ~sweep.spoilt =>
    \A o \in sweep.start : book[o] = "gone" \/ o \in sweep.found \/ Ahead(o)
\* Once the listing is complete: gone, or in a batch that is to come, is under way
\* or was answered.
BatchedSoFar ==
  sweep.pc = "batches" /\ ~sweep.spoilt =>
    \A o \in sweep.start : \/ book[o] = "gone" \/ o \in sweep.rest
                           \/ o \in sweep.pending \/ o \in sweep.asked
\* A listing whose cursor is stuck counts as spoilt, and only one side is swept.
SweepSound ==
  /\ sweep.pc = "paging" /\ sweep.stuck => sweep.spoilt
  /\ \A o \in sweep.start : SideOf[o] = sweep.side
CoverInv == PagedSoFar /\ BatchedSoFar /\ SweepSound

\* An order's place in a list is a number, and grows with the list.
LEMMA RankGrows ==
  ASSUME NEW S \in SUBSET Orders, NEW T \in SUBSET S, NEW o \in Orders
  PROVE  /\ Rank(T, o) \in Nat /\ Rank(S, o) \in Nat /\ Rank(T, o) <= Rank(S, o)
         /\ Cardinality(S) \in Nat
<1>. DEFINE below(R) == {p \in R : p < o}
<1>1. IsFiniteSet(S) /\ IsFiniteSet(below(S))
  BY PosterAssumption, FS_Subset
<1>2. below(T) \in SUBSET below(S)
  OBVIOUS
<1>3. IsFiniteSet(below(T)) /\ Cardinality(below(T)) <= Cardinality(below(S))
  BY <1>1, <1>2, FS_Subset
<1>. QED
  BY <1>1, <1>3, FS_CardinalityType DEF Rank

\* And is below the list's length.
LEMMA RankBelowLength ==
  ASSUME NEW S \in SUBSET Orders, NEW o \in S
  PROVE  Rank(S, o) < Cardinality(S)
<1>. DEFINE below == {p \in S : p < o}
<1>1. IsFiniteSet(S)
  BY PosterAssumption, FS_Subset
<1>2. below \in SUBSET S /\ o \notin below
  BY PosterAssumption
<1>3. Cardinality(below) <= Cardinality(S) /\ Cardinality(below) # Cardinality(S)
  BY <1>1, <1>2, FS_Subset
<1>4. Cardinality(below) \in Nat /\ Cardinality(S) \in Nat
  BY <1>1, <1>2, FS_Subset, FS_CardinalityType
<1>. QED
  BY <1>3, <1>4 DEF Rank

\* Steps that leave the sweep alone and no order's fate undone keep the invariant:
\* orders that start to rest only move those behind them away from the cursor.
LEMMA CoverKept ==
  ASSUME TypeOK, CoverInv, sweep' = sweep,
         book' \in BookType, \A o \in Orders : book[o] # "none" => book'[o] = book[o]
  PROVE  CoverInv'
<1>. USE DEF CoverInv
<1>1. sweep.start \subseteq Orders /\ sweep.cursor \in Nat /\ Resting \subseteq Orders /\ Resting' \subseteq Orders
  BY DEF TypeOK, SweepType, Resting
<1>2. Resting \in SUBSET Resting'
  BY DEF TypeOK, BookType, Resting
<1>3. \A o \in sweep.start : Ahead(o) => Ahead(o)'
  <2>. SUFFICES ASSUME NEW o \in sweep.start, Ahead(o) PROVE Ahead(o)'
    OBVIOUS
  <2>1. Rank(Resting, o) \in Nat /\ Rank(Resting', o) \in Nat /\ Rank(Resting, o) <= Rank(Resting', o)
    BY <1>1, <1>2, RankGrows
  <2>2. Rank(Resting, o)' = Rank(Resting', o)
    BY DEF Rank
  <2>. QED
    BY <1>1, <1>2, <2>1, <2>2 DEF Ahead
<1>4. \A o \in sweep.start : book[o] = "gone" => book'[o] = "gone"
  BY <1>1
<1>5. PagedSoFar'
  BY <1>3, <1>4 DEF PagedSoFar
<1>6. BatchedSoFar'
  BY <1>4 DEF BatchedSoFar
<1>. QED
  BY <1>5, <1>6 DEF SweepSound

\* Departures end orders, and spoil a listing under way.
LEMMA CoverLeft ==
  ASSUME TypeOK, CoverInv, NEW S \in SUBSET Orders, sweep' = Leave(S),
         book' = [o \in Orders |-> IF o \in S THEN "gone" ELSE book[o]]
  PROVE  CoverInv'
<1>. USE DEF CoverInv
<1>1. CASE S = {}
  <2>1. sweep' = sweep /\ book' = book
    BY <1>1 DEF Leave, TypeOK, SweepType, BookType
  <2>. QED
    BY <2>1, CoverKept DEF TypeOK
<1>2. CASE S # {}
  <2>1. sweep.start \subseteq Orders
    BY DEF TypeOK, SweepType
  <2>2. sweep' = [sweep EXCEPT !.spoilt = @ \/ sweep.pc = "paging"]
    BY <1>2 DEF Leave
  <2>3. /\ sweep'.pc = sweep.pc /\ sweep'.start = sweep.start /\ sweep'.rest = sweep.rest
        /\ sweep'.pending = sweep.pending /\ sweep'.asked = sweep.asked /\ sweep'.side = sweep.side
        /\ sweep'.spoilt = (sweep.spoilt \/ sweep.pc = "paging")
    BY <2>2 DEF TypeOK, SweepType
  <2>4. PagedSoFar'
    BY <2>3 DEF PagedSoFar
  <2>5. BatchedSoFar'
    BY <2>1, <2>3 DEF BatchedSoFar
  <2>6. SweepSound'
    BY <2>3 DEF SweepSound
  <2>. QED
    BY <2>4, <2>5, <2>6
<1>. QED
  BY <1>1, <1>2

\* An idle sweep promises nothing.
LEMMA CoverIdle == sweep' = NoSweep => CoverInv'
BY DEF NoSweep, CoverInv, PagedSoFar, BatchedSoFar, SweepSound

\* After a page, what was not seen yet is listed behind the next cursor, and what
\* is left after the last page is nothing.
LEMMA CoverPaged ==
  ASSUME TypeOK, CoverInv, sweep.pc = "paging", book' = book, NEW stuck \in BOOLEAN,
         AfterPage(sweep.found \union Page(sweep.cursor), stuck)
  PROVE  CoverInv'
<1>. DEFINE found == sweep.found \union Page(sweep.cursor)
            next  == NextCursor(stuck)
<1>. USE DEF CoverInv
<1>1. /\ sweep.start \subseteq Orders /\ sweep.cursor \in Nat /\ Resting \subseteq Orders
      /\ PageSize \in Nat /\ PageSize > 0
  BY PosterAssumption DEF TypeOK, SweepType, Resting
<1>2. ASSUME NEW o \in sweep.start, ~sweep.spoilt
      PROVE  book[o] = "gone" \/ o \in found \/ (o \in Resting /\ Rank(Resting, o) >= sweep.cursor + PageSize)
  <2>1. book[o] = "gone" \/ o \in sweep.found \/ Ahead(o)
    BY <1>2 DEF PagedSoFar
  <2>2. CASE Ahead(o)
    <3>1. o \in Resting /\ Rank(Resting, o) >= sweep.cursor /\ Rank(Resting, o) \in Nat
      BY <1>1, <2>2, RankGrows DEF Ahead
    <3>2. CASE Rank(Resting, o) < sweep.cursor + PageSize
      <4>1. Rank(Resting, o) \in sweep.cursor..(sweep.cursor + PageSize - 1)
        BY <1>1, <3>1, <3>2
      <4>. QED
        BY <1>1, <3>1, <4>1 DEF Page
    <3>. QED
      BY <1>1, <3>1, <3>2
  <2>. QED
    BY <2>1, <2>2
<1>3. CASE ~Ends(next)
  <2>1. sweep' = [sweep EXCEPT !.found = found, !.stuck = stuck, !.cursor = next, !.spoilt = @ \/ stuck]
    BY <1>3 DEF AfterPage
  <2>2. /\ sweep'.pc = "paging" /\ sweep'.start = sweep.start /\ sweep'.found = found /\ sweep'.cursor = next
        /\ sweep'.side = sweep.side /\ sweep'.stuck = stuck /\ sweep'.spoilt = (sweep.spoilt \/ stuck)
    BY <2>1 DEF TypeOK, SweepType
  <2>3. PagedSoFar'
    <3>. SUFFICES ASSUME ~sweep.spoilt, ~stuck, NEW o \in sweep.start
                  PROVE  book[o] = "gone" \/ o \in found \/ Ahead(o)'
      BY <2>2 DEF PagedSoFar
    <3>1. next = sweep.cursor + PageSize
      BY DEF NextCursor
    <3>2. (o \in Resting /\ Rank(Resting, o) >= sweep.cursor + PageSize) => Ahead(o)'
      BY <2>2, <3>1 DEF Ahead, Resting, Rank
    <3>. QED
      BY <1>2, <3>2
  <2>4. BatchedSoFar' /\ SweepSound'
    BY <2>2 DEF BatchedSoFar, SweepSound
  <2>. QED
    BY <2>3, <2>4
<1>4. CASE Ends(next) /\ sweep.goal = "cancel"
  <2>1. sweep' = [sweep EXCEPT !.pc = "batches", !.spoilt = @ \/ stuck,
                               !.rest = {o \in found : SideOf[o] = sweep.side}]
    BY <1>4 DEF AfterPage
  <2>2. /\ sweep'.pc = "batches" /\ sweep'.start = sweep.start /\ sweep'.side = sweep.side
        /\ sweep'.rest = {o \in found : SideOf[o] = sweep.side} /\ sweep'.spoilt = (sweep.spoilt \/ stuck)
    BY <2>1 DEF TypeOK, SweepType
  <2>3. BatchedSoFar'
    <3>. SUFFICES ASSUME ~sweep.spoilt, ~stuck, NEW o \in sweep.start
                  PROVE  book[o] = "gone" \/ o \in {p \in found : SideOf[p] = sweep.side}
      BY <2>2 DEF BatchedSoFar
    <3>1. sweep.cursor + PageSize >= Cardinality(Resting)
      BY <1>1, <1>4 DEF Ends, NextCursor, LastPage
    <3>2. ~(o \in Resting /\ Rank(Resting, o) >= sweep.cursor + PageSize)
      <4>. SUFFICES ASSUME o \in Resting PROVE ~(Rank(Resting, o) >= sweep.cursor + PageSize)
        OBVIOUS
      <4>1. Rank(Resting, o) < Cardinality(Resting)
        BY <1>1, RankBelowLength
      <4>2. Rank(Resting, o) \in Nat /\ Cardinality(Resting) \in Nat
        BY <1>1, RankGrows
      <4>. QED
        BY <1>1, <3>1, <4>1, <4>2
    <3>3. book[o] = "gone" \/ o \in found
      BY <1>2, <3>2
    <3>. QED
      BY <3>3 DEF SweepSound
  <2>4. PagedSoFar' /\ SweepSound'
    BY <2>2 DEF PagedSoFar, SweepSound
  <2>. QED
    BY <2>3, <2>4
<1>5. CASE Ends(next) /\ sweep.goal = "reconcile"
  BY <1>5, CoverIdle DEF AfterPage
<1>. QED
  BY <1>3, <1>4, <1>5 DEF TypeOK, SweepType

\* The invariant is kept by every step.
LEMMA CoverStepwise ==
  ASSUME TypeOK, TypeOK', TrackingInv, CoverInv, [Next]_vars
  PROVE  CoverInv'
<1>0. UNCHANGED <<book, sweep>> => CoverInv'
  BY CoverKept DEF TypeOK
<1>1. CASE Placer \/ Repricer \/ Supervise \/ PlaceResting \/ PostOne \/ CancelForReprice
  <2>1. UNCHANGED <<book, sweep>>
    BY <1>1 DEF Placer, PlaceReturns, PlaceTimesOut, PlaceSignals, Repricer, CancelReturns, CancelTimesOut,
                CancelSignals, Supervise, PlaceResting, PostOne, Posting, CancelForReprice
  <2>. QED
    BY <1>0, <2>1
<1>2. CASE GetPage
  <2>1. ASSUME SweepFails PROVE CoverInv'
    BY <2>1, CoverIdle DEF SweepFails
  <2>2. sweep.stuck \in BOOLEAN
    BY DEF TypeOK, SweepType
  <2>. QED
    BY <1>2, <2>1, <2>2, CoverPaged DEF GetPage
<1>3. CASE CancelBatch
  <2>1. PICK chunk \in SUBSET sweep.rest :
          sweep' = [sweep EXCEPT !.pending = chunk, !.rest = @ \ chunk]
    BY <1>3 DEF CancelBatch, FirstChunk
  <2>2. sweep.pc = "batches" /\ sweep.pending = {} /\ book' = book
    BY <1>3 DEF CancelBatch
  <2>3. /\ sweep'.pc = sweep.pc /\ sweep'.spoilt = sweep.spoilt /\ sweep'.start = sweep.start
        /\ sweep'.side = sweep.side /\ sweep'.stuck = sweep.stuck /\ sweep'.asked = sweep.asked
        /\ sweep'.pending = chunk /\ sweep'.rest = sweep.rest \ chunk
    BY <2>1 DEF TypeOK, SweepType
  <2>4. BatchedSoFar'
    BY <2>2, <2>3 DEF CoverInv, BatchedSoFar
  <2>. QED
    BY <2>2, <2>3, <2>4 DEF CoverInv, PagedSoFar, SweepSound
<1>4. CASE BatchTimesOut \/ SweepReturns
  BY <1>4, CoverIdle DEF BatchTimesOut, SweepReturns, SweepFails
<1>5. CASE SweepSignals
  <2>1. CASE sweep' = [sweep EXCEPT !.alarm = "notify"]
    <3>1. /\ sweep'.pc = sweep.pc /\ sweep'.spoilt = sweep.spoilt /\ sweep'.start = sweep.start
          /\ sweep'.side = sweep.side /\ sweep'.stuck = sweep.stuck /\ sweep'.asked = sweep.asked
          /\ sweep'.pending = sweep.pending /\ sweep'.rest = sweep.rest /\ sweep'.found = sweep.found
          /\ sweep'.cursor = sweep.cursor /\ book' = book
      BY <1>5, <2>1 DEF SweepSignals, TypeOK, SweepType
    <3>. QED
      BY <3>1 DEF CoverInv, PagedSoFar, BatchedSoFar, SweepSound, Ahead, Resting, Rank
  <2>. QED
    BY <1>5, <2>1, CoverIdle DEF SweepSignals, SweepFails
<1>6. CASE StartSweep
  <2>1. CASE sweep' = [NoSweep EXCEPT !.pc = "paging", !.goal = "reconcile"]
    BY <2>1 DEF NoSweep, CoverInv, PagedSoFar, BatchedSoFar, SweepSound
  <2>2. ASSUME NEW side \in {"buy", "sell"},
               sweep' = [NoSweep EXCEPT !.pc = "paging", !.side = side,
                                        !.start = {o \in Resting : SideOf[o] = side}]
        PROVE  CoverInv'
    <3>1. /\ sweep'.pc = "paging" /\ sweep'.cursor = 0 /\ sweep'.stuck = FALSE /\ sweep'.side = side
          /\ sweep'.start = {o \in Resting : SideOf[o] = side}
      BY <2>2 DEF NoSweep
    <3>2. book' = book
      BY <1>6 DEF StartSweep
    <3>3. \A o \in sweep'.start : Ahead(o)'
      <4>. SUFFICES ASSUME NEW o \in Resting PROVE Rank(Resting, o)' >= 0 /\ o \in Resting'
        BY <3>1 DEF Ahead
      <4>1. Rank(Resting, o) \in Nat
        BY RankGrows DEF Resting
      <4>2. Rank(Resting, o)' = Rank(Resting, o) /\ Resting' = Resting
        BY <3>2 DEF Rank, Resting
      <4>. QED
        BY <4>1, <4>2
    <3>. QED
      BY <3>1, <3>3 DEF CoverInv, PagedSoFar, BatchedSoFar, SweepSound
  <2>. QED
    BY <1>6, <2>1, <2>2 DEF StartSweep
<1>7. CASE Fill
  <2>1. PICK o \in Resting : book' = [book EXCEPT ![o] = "gone"] /\ sweep' = Leave({o})
    BY <1>7 DEF Fill
  <2>2. {o} \in SUBSET Orders /\ book' = [p \in Orders |-> IF p \in {o} THEN "gone" ELSE book[p]]
    BY <2>1 DEF Resting, TypeOK, BookType
  <2>. QED
    BY <2>1, <2>2, CoverLeft
<1>8. ASSUME NEW r \in wire, PostServed(r) \/ PostServedShort(r) PROVE CoverInv'
  <2>1. sweep' = sweep /\ r.op = "post" /\ book' \in BookType
    BY <1>8 DEF PostServed, PostServedShort, TypeOK
  <2>2. \A o \in Orders : o \notin r.ids => book'[o] = book[o]
    BY <1>8 DEF PostServed, PostServedShort
  <2>3. \A o \in r.ids : book[o] = "none"
    BY <2>1 DEF TrackingInv, WireUnseen
  <2>. QED
    BY <2>1, <2>2, <2>3, CoverKept
<1>9. ASSUME NEW r \in wire, PostTurnedAway(r) PROVE CoverInv'
  BY <1>0, <1>9 DEF PostTurnedAway
<1>10. ASSUME NEW r \in wire, CancelServed(r) PROVE CoverInv'
  <2>0. r.ids \in SUBSET Orders
    BY <1>10, ServingTyped DEF CancelServed, TypeOK
  <2>1. PICK cancelled \in SUBSET Orders, ended \in SUBSET Orders : Cancels(r, cancelled, ended)
    BY <1>10, <2>0 DEF CancelServed
  <2>2. book' = [o \in Orders |-> IF o \in cancelled THEN "gone" ELSE book[o]]
    BY <2>1 DEF Cancels
  <2>3. CASE sweep' = Leave(cancelled)
    BY <2>2, <2>3, CoverLeft
  <2>4. CASE /\ AwaitedBySweeper(r)
             /\ sweep' = [Leave(cancelled) EXCEPT !.pending = {}, !.asked = @ \union r.ids]
    <3>1. sweep.pc = "batches" /\ r.ids = sweep.pending
      BY <2>4 DEF AwaitedBySweeper
    <3>2. /\ sweep'.pc = sweep.pc /\ sweep'.spoilt = sweep.spoilt /\ sweep'.start = sweep.start
          /\ sweep'.side = sweep.side /\ sweep'.stuck = sweep.stuck /\ sweep'.rest = sweep.rest
          /\ sweep'.pending = {} /\ sweep'.asked = sweep.asked \union sweep.pending
      BY <2>4, <3>1 DEF Leave, TypeOK, SweepType
    <3>3. sweep.start \subseteq Orders
      BY DEF TypeOK, SweepType
    <3>4. BatchedSoFar'
      BY <2>2, <3>1, <3>2, <3>3 DEF CoverInv, BatchedSoFar
    <3>. QED
      BY <3>1, <3>2, <3>4 DEF CoverInv, PagedSoFar, SweepSound
  <2>. QED
    BY <2>1, <2>3, <2>4 DEF Cancels
<1>11. ASSUME NEW r \in wire, CancelTurnedAway(r) PROVE CoverInv'
  <2>1. book' = book
    BY <1>11 DEF CancelTurnedAway
  <2>2. CASE sweep' = [sweep EXCEPT !.alarm = "store"]
    <3>1. /\ sweep'.pc = sweep.pc /\ sweep'.spoilt = sweep.spoilt /\ sweep'.start = sweep.start
          /\ sweep'.side = sweep.side /\ sweep'.stuck = sweep.stuck /\ sweep'.asked = sweep.asked
          /\ sweep'.pending = sweep.pending /\ sweep'.rest = sweep.rest /\ sweep'.found = sweep.found
          /\ sweep'.cursor = sweep.cursor
      BY <2>2 DEF TypeOK, SweepType
    <3>. QED
      BY <2>1, <3>1 DEF CoverInv, PagedSoFar, BatchedSoFar, SweepSound, Ahead, Resting, Rank
  <2>3. CASE sweep' = NoSweep
    BY <2>3, CoverIdle
  <2>. QED
    BY <1>0, <1>11, <2>1, <2>2, <2>3 DEF CancelTurnedAway, SweepFails
<1>12. CASE UNCHANGED vars
  BY <1>0, <1>12 DEF vars
<1>. QED
  BY <1>1, <1>2, <1>3, <1>4, <1>5, <1>6, <1>7, <1>8, <1>9, <1>10, <1>11, <1>12 DEF Next, Sweeper, Callers, Venue

\* Each order resting on the side when cancel_orders_by_side began is gone or was
\* named in an answered DELETE when it returns Ok, unless the listing shifted.
THEOREM SideCovered == Spec => []OkCoversTheSide
<1>1. Init => CoverInv /\ TrackingInv
  BY DEF Init, NoSweep, NoCall, CoverInv, TrackingInv, PagedSoFar, BatchedSoFar, SweepSound,
         WireUnseen, WireApart, KnownAgrees, PlaceAgrees, CancelAgrees, FoundThere
<1>2. TypeOK /\ TypeOK' /\ TrackingInv /\ CoverInv /\ [Next]_vars => TrackingInv' /\ CoverInv'
  BY CoverStepwise, TrackingStepwise
<1>3. CoverInv => OkCoversTheSide
  BY DEF CoverInv, BatchedSoFar, OkCoversTheSide, SideCancelled
<1>. QED
  BY <1>1, <1>2, <1>3, TypeCorrect, PTL DEF Spec
=============================================================================
